---- MODULE Spec2Model ----
(***************************************************************************)
(* Bank-statement parsing subsystem of streamlit-bank-dashboard.            *)
(*                                                                         *)
(* Two state machines are modelled:                                        *)
(*   - the router parse_bank_statement (text extraction, bank/format       *)
(*     selection, fallback), over filenames and texts kept as sequences    *)
(*     of characters so that upper(), the 1500-character slice and the     *)
(*     whitespace stripping are computed, not assumed;                     *)
(*   - the per-format parsers' transaction loops (field conversion,        *)
(*     debit/credit inference, running last_balance, final dropna), over   *)
(*     blocks whose tokens are drawn from small sets.                      *)
(* Money is kept in paise (1/100 rupee) scaled by 10, i.e. in units of     *)
(* 0.001, so that the tolerance 0.001 of the source is the integer 1.      *)
(***************************************************************************)
EXTENDS Integers, Sequences, FiniteSets, TLC

VARIABLES
  \* ---- router machine (parse_bank_statement) ----
  filename,      \* the advisory filename of the current call
  pdf,           \* the uploaded document of the current call
  text,          \* result of extract_text_from_pdf (NoText = None)
  pc,            \* position inside parse_bank_statement
  invoked,       \* the parsers called so far by the current call, in order
  result_from,   \* the parsers whose rows make up the returned DataFrame
  result_columns,  \* the columns of the DataFrame that the call returns
  prev,          \* outcome of the previous call when it had the same (filename, prefix)
  \* ---- parser machine (one parse_* function running over a statement) ----
  parser,        \* the parse_* function that is running
  ppc,           \* position inside the parser
  last_balance,  \* the running balance (NoBalance = None)
  transactions,  \* the list `transactions` of the parser
  nblocks,       \* number of blocks consumed so far
  handled,       \* the block processed last: the block, the balance it was
                 \* compared with and the record it gave
  df,            \* the returned DataFrame (sequence of rows) once the parser returned
  uploaded_bank_statements,  \* the uploaded files of the dashboard, each with
                             \* what parse_bank_statement does for it
  file_index,                \* position of the bank statement loop
  all_tx_dfs,                \* the list of non-empty frames collected so far
  master_transactions_df,    \* the master transaction set
  bpc,                       \* position of the dashboard run
  \* ---- line machine (the line loops of parse_bandhan_bank and parse_canara_bank_format2) ----
  lparser,              \* the parse_* function whose line loop is running
  text_lines,           \* text.split('\n'), stripped
  line_index,           \* position of the loop in text_lines
  cleaned_lines,        \* parse_bandhan_bank: the joined lines
  current_block_lines,  \* parse_canara_bank_format2: the open block
  handed_blocks,        \* the blocks handed to process_block so far
  records,              \* the blocks that gave a record
  lpc,                  \* position inside the parser
  \* ---- session machine (the script runs of one browser session) ----
  session_state,        \* st.session_state: a function on the keys that are set
  rendered,             \* what the last script run rendered
  last_click,           \* the master frames of the last 'Process and Analyze Files' click
  last_login            \* the password of the last Login click

rvars == <<filename, pdf, text, pc, invoked, result_from, result_columns, prev>>
pvars == <<parser, ppc, last_balance, transactions, nblocks, handled, df>>
bvars == <<uploaded_bank_statements, file_index, all_tx_dfs, master_transactions_df, bpc>>
lvars == <<lparser, text_lines, line_index, cleaned_lines, current_block_lines,
           handed_blocks, records, lpc>>
svars == <<session_state, rendered, last_click, last_login>>
vars == <<filename, pdf, text, pc, invoked, result_from, result_columns, prev,
          parser, ppc, last_balance, transactions, nblocks, handled, df,
          uploaded_bank_statements, file_index, all_tx_dfs, master_transactions_df, bpc,
          lparser, text_lines, line_index, cleaned_lines, current_block_lines,
          handed_blocks, records, lpc, session_state, rendered, last_click,
          last_login>>

(***************************************************************************)
(* Character strings: a str is a sequence of one-character strings.        *)
(***************************************************************************)
LowerCase == <<"a","b","c","d","e","f","g","h","i","j","k","l","m",
               "n","o","p","q","r","s","t","u","v","w","x","y","z">>
UpperCase == <<"A","B","C","D","E","F","G","H","I","J","K","L","M",
               "N","O","P","Q","R","S","T","U","V","W","X","Y","Z">>

\* str.upper() on one character
UpperChar(c) ==
  IF \E i \in 1..26 : LowerCase[i] = c
    THEN UpperCase[CHOOSE i \in 1..26 : LowerCase[i] = c]
    ELSE c

\* str.upper()
Upper(s) == [i \in 1..Len(s) |-> UpperChar(s[i])]

\* the class \s of the re module, as far as the inputs use it
IsSpace(c) == c \in {" ", "\n", "\t"}

\* re.sub(r'\s+', '', s)
StripSpace(s) == SelectSeq(s, LAMBDA c : ~IsSpace(c))

\* re.sub(r'\s+', ' ', s): every maximal run of whitespace becomes one blank
CollapseSpace(s) ==
  LET kept == SelectSeq([i \in 1..Len(s) |-> i],
                        LAMBDA i : ~IsSpace(s[i]) \/ i = 1 \/ ~IsSpace(s[i - 1]))
  IN [k \in 1..Len(kept) |-> IF IsSpace(s[kept[k]]) THEN " " ELSE s[kept[k]]]

\* the `in` operator on str: needle occurs as a contiguous substring
Contains(s, needle) ==
  \/ Len(needle) = 0
  \/ \E i \in 1..(Len(s) - Len(needle) + 1) :
        /\ s[i] = needle[1]
        /\ SubSeq(s, i, i + Len(needle) - 1) = needle

\* s[:n]
Take(s, n) == IF Len(s) <= n THEN s ELSE SubSeq(s, 1, n)

(***************************************************************************)
(* String literals of the router.                                          *)
(***************************************************************************)
\* the filename keys (KEY_*) and text fingerprints (FP_*) tested by parse_bank_statement,
\* and the page-break sentinel written by extract_text_from_pdf
Lit ==
  [KEY_PUNJAB_NATIONAL |-> <<"P", "U", "N", "J", "A", "B", " ", "N", "A", "T", "I", "O", "N", "A", "L">>,
   KEY_PNB |-> <<"P", "N", "B">>,
   KEY_YES_BANK |-> <<"Y", "E", "S", " ", "B", "A", "N", "K">>,
   KEY_UNION |-> <<"U", "N", "I", "O", "N">>,
   KEY_INDIAN_BANK |-> <<"I", "N", "D", "I", "A", "N", " ", "B", "A", "N", "K">>,
   KEY_SBI |-> <<"S", "B", "I">>,
   KEY_DHANLAXMI |-> <<"D", "H", "A", "N", "L", "A", "X", "M", "I">>,
   KEY_SARASWAT |-> <<"S", "A", "R", "A", "S", "W", "A", "T">>,
   KEY_IDBI |-> <<"I", "D", "B", "I">>,
   KEY_IDFCFIRST |-> <<"I", "D", "F", "C", "F", "I", "R", "S", "T">>,
   KEY_INDIAN_OVERSEAS |-> <<"I", "N", "D", "I", "A", "N", " ", "O", "V", "E", "R", "S", "E", "A", "S">>,
   KEY_HDFC |-> <<"H", "D", "F", "C">>,
   KEY_AXIS |-> <<"A", "X", "I", "S">>,
   KEY_INDUSIND |-> <<"I", "N", "D", "U", "S", "I", "N", "D">>,
   KEY_AU |-> <<"A", "U">>,
   KEY_ICICI |-> <<"I", "C", "I", "C", "I">>,
   KEY_KOTAK |-> <<"K", "O", "T", "A", "K">>,
   KEY_UCO |-> <<"U", "C", "O">>,
   KEY_CENTRAL_BANK |-> <<"C", "E", "N", "T", "R", "A", "L", " ", "B", "A", "N", "K">>,
   KEY_PUNJAB_SIND |-> <<"P", "U", "N", "J", "A", "B", " ", "&", " ", "S", "I", "N", "D">>,
   KEY_CANARA |-> <<"C", "A", "N", "A", "R", "A">>,
   KEY_EQUITAS |-> <<"E", "Q", "U", "I", "T", "A", "S">>,
   KEY_FEDERAL_BANK |-> <<"F", "E", "D", "E", "R", "A", "L", " ", "B", "A", "N", "K">>,
   KEY_BANDHAN |-> <<"B", "A", "N", "D", "H", "A", "N">>,
   KEY_BARODA |-> <<"B", "A", "R", "O", "D", "A">>,
   KEY_BANK_OF_INDIA |-> <<"B", "A", "N", "K", " ", "O", "F", " ", "I", "N", "D", "I", "A">>,
   FP_PNB2 |-> <<"D", "A", "T", "E", "I", "N", "S", "T", "R", "U", "M", "E", "N", "T", "I", "D", "A", "M", "O", "U", "N", "T", "T", "Y", "P", "E", "B", "A", "L", "A", "N", "C", "E", "R", "E", "M", "A", "R", "K", "S">>,
   FP_YES2 |-> <<"T", "R", "A", "N", "S", "A", "C", "T", "I", "O", "N", " ", "D", "A", "T", "E">>,
   FP_UNION4 |-> <<"S", "I", "D", "A", "T", "E", "P", "A", "R", "T", "I", "C", "U", "L", "A", "R", "S", "C", "H", "Q", "N", "U", "M">>,
   FP_UNION3 |-> <<"D", "A", "T", "E", "P", "A", "R", "T", "I", "C", "U", "L", "A", "R", "S", "C", "H", "Q", ".", "N", "O", ".">>,
   FP_UNION2 |-> <<"S", ".", "N", "O", "D", "A", "T", "E", "T", "R", "A", "N", "S", "A", "C", "T", "I", "O", "N", "I", "D", "R", "E", "M", "A", "R", "K", "S">>,
   FP_INDIAN7 |-> <<"D", "A", "T", "E", "T", "R", "A", "N", "S", "A", "C", "T", "I", "O", "N", "D", "E", "T", "A", "I", "L", "S", "D", "E", "B", "I", "T", "S">>,
   FP_SBI3_A |-> <<"T", "R", "A", "N", "S", "A", "C", "T", "I", "O", "N", " ", "A", "C", "C", "O", "U", "N", "T", "S">>,
   FP_SBI3_B |-> <<"L", "O", "A", "N", " ", "A", "C", "C", "O", "U", "N", "T", "S">>,
   FP_SBI2 |-> <<"P", "O", "S", "T", "D", "A", "T", "E", "V", "A", "L", "U", "E", "D", "A", "T", "E", "D", "E", "S", "C", "R", "I", "P", "T", "I", "O", "N", "C", "H", "E", "Q", "U", "E", "N", "O", "/", "R", "E", "F", "E", "R", "E", "N", "C", "E">>,
   FP_IDBI3 |-> <<"S", ".", "N", "O", "T", "X", "N", "D", "A", "T", "E", "V", "A", "L", "U", "E", "D", "A", "T", "E", "D", "E", "S", "C", "R", "I", "P", "T", "I", "O", "N">>,
   FP_IDBI4 |-> <<"B", "A", "L", "A", "N", "C", "E", "(", "I", "N", "R", ")", "A", "M", "O", "U", "N", "T", "(", "I", "N", "R", ")">>,
   FP_VALUE |-> <<"V", "A", "L", "U", "E">>,
   FP_DT |-> <<"D", "T">>,
   FP_CHQ |-> <<"C", "H", "Q">>,
   FP_REF |-> <<"R", "E", "F">>,
   FP_HDFC2 |-> <<"C", "H", "Q", ".", "/", "R", "E", "F", ".", "N", "O", ".", "V", "A", "L", "U", "E", "D", "T">>,
   FP_AXIS1 |-> <<"S", ".", "N", "O", "T", "R", "A", "N", "S", "A", "C", "T", "I", "O", "N">>,
   FP_AXIS2 |-> <<"T", "R", "A", "N", "D", "A", "T", "E", "C", "H", "Q", "N", "O">>,
   FP_INDB |-> <<"I", "N", "D", "B">>,
   FP_INDUSIND2 |-> <<"F", "I", "N", "S", "E", "N", "S", "E", "S", "E", "C", "U", "R", "I", "T", "I", "E", "S">>,
   FP_INDUSIND5 |-> <<"B", "A", "N", "K", "R", "E", "F", "E", "R", "E", "N", "C", "E", "V", "A", "L", "U", "E", "D", "A", "T", "E", "T", "R", "A", "N", "S", "A", "C", "T", "I", "O", "N">>,
   FP_INDUSIND4 |-> <<"C", "H", "Q", ".", "/", "R", "E", "F", ".", "N", "O", "W", "I", "T", "H", "D", "R", "A", "W", "A", "L", "D", "E", "P", "O", "S", "I", "T", "B", "A", "L", "A", "N", "C", "E">>,
   FP_INDUSIND3 |-> <<"D", "A", "T", "E", " ", "T", "Y", "P", "E", " ", "D", "E", "S", "C", "R", "I", "P", "T", "I", "O", "N", " ", "D", "E", "B", "I", "T", " ", "C", "R", "E", "D", "I", "T", " ", "B", "A", "L", "A", "N", "C", "E">>,
   FP_TRANSACTION |-> <<"T", "R", "A", "N", "S", "A", "C", "T", "I", "O", "N">>,
   FP_VALUE_DATE |-> <<"V", "A", "L", "U", "E", " ", "D", "A", "T", "E">>,
   FP_DESC_NARR |-> <<"D", "E", "S", "C", "R", "I", "P", "T", "I", "O", "N", "/", "N", "A", "R", "R", "A", "T", "I", "O", "N">>,
   FP_ACCOUNT_STATEMENT |-> <<"A", "C", "C", "O", "U", "N", "T", " ", "S", "T", "A", "T", "E", "M", "E", "N", "T">>,
   FP_AU_SFB |-> <<"A", "U", " ", "S", "M", "A", "L", "L", " ", "F", "I", "N", "A", "N", "C", "E", " ", "B", "A", "N", "K">>,
   FP_AU3 |-> <<"T", "X", "N", "D", "A", "T", "E", "V", "A", "L", "U", "E">>,
   FP_ICICI3 |-> <<"D", "A", "T", "E", " ", "D", "E", "S", "C", "R", "I", "P", "T", "I", "O", "N", " ", "A", "M", "O", "U", "N", "T", " ", "T", "Y", "P", "E">>,
   FP_ICICI2 |-> <<"S", "N", "O", ".", "V", "A", "L", "U", "E", "D", "A", "T", "E", "T", "R", "A", "N", "S", "A", "C", "T", "I", "O", "N", "D", "A", "T", "E">>,
   FP_KKBK |-> <<"K", "K", "B", "K">>,
   FP_KOTAK3 |-> <<"D", "A", "T", "E", "N", "A", "R", "R", "A", "T", "I", "O", "N", "C", "H", "Q", "/", "R", "E", "F", "N", "O", "W", "I", "T", "H", "D", "R", "A", "W", "A", "L", "(", "D", "R", ")", "/", "D", "E", "P", "O", "S", "I", "T", "(", "C", "R", ")", "B", "A", "L", "A", "N", "C", "E">>,
   FP_KOTAK2 |-> <<"D", "A", "T", "E", "N", "A", "R", "R", "A", "T", "I", "O", "N", "C", "H", "Q", "/", "R", "E", "F", "N", "O", ".">>,
   FP_UCO2 |-> <<"D", "A", "T", "E", "P", "A", "R", "T", "I", "C", "U", "L", "A", "R", "S", "C", "H", "Q", ".", "N", "O", ".">>,
   FP_CBI3 |-> <<"D", "A", "T", "E", "P", "A", "R", "T", "I", "C", "U", "L", "A", "R", "S", "W", "I", "T", "H", "D", "R", "A", "W", "A", "L", "S">>,
   FP_CBI2 |-> <<"P", "O", "S", "T", "D", "A", "T", "E", "V", "A", "L", "U", "E", "D", "A", "T", "E">>,
   FP_CBI1 |-> <<"P", "O", "S", "T", "D", "A", "T", "E", "T", "X", "N", "D", "A", "T", "E">>,
   FP_CANARA2 |-> <<"T", "x", "n", " ", "D", "a", "t", "e", " ", "V", "a", "l", "u", "e", " ", "D", "a", "t", "e">>,
   FP_BOB4 |-> <<"W", "I", "T", "H", "D", "R", "A", "W", "A", "L", " ", "(", "D", "R", ")", " ", "D", "E", "P", "O", "S", "I", "T", " ", "(", "C", "R", ")", " ", "B", "A", "L", "A", "N", "C", "E">>,
   PAGE_BREAK |-> <<"\n", "-", "-", "-", " ", "P", "A", "G", "E", " ", "B", "R", "E", "A", "K", " ", "-", "-", "-", "\n">>]

\* the narration keywords of the parsers' first-row heuristics
Kw ==
  [KW_CR |-> <<"C", "R">>,
   KW_CREDIT |-> <<"C", "R", "E", "D", "I", "T">>,
   KW_DEPOSIT |-> <<"D", "E", "P", "O", "S", "I", "T">>,
   KW_TRANSFER_CR |-> <<"T", "R", "A", "N", "S", "F", "E", "R", " ", "C", "R">>,
   KW_BY_TRANSFER |-> <<"B", "Y", " ", "T", "R", "A", "N", "S", "F", "E", "R">>,
   KW_NEFT_SP |-> <<"N", "E", "F", "T", " ">>,
   KW_CR_SP |-> <<"C", "R", " ">>,
   KW_ACH_DR |-> <<"A", "C", "H", " ", "D", "R">>,
   KW_WDL |-> <<"W", "D", "L">>,
   KW_UPI_DR |-> <<"U", "P", "I", "/", "D", "R">>,
   KW_WITHDRAWAL |-> <<"W", "I", "T", "H", "D", "R", "A", "W", "A", "L">>,
   KW_NEFT_DASH |-> <<"N", "E", "F", "T", "-">>]
(***************************************************************************)
(* Inputs of the router machine: names of uploaded files and page texts.    *)
(***************************************************************************)
\* file names as the dashboard passes them (file.name)
Fn ==
  [PNB |-> <<"p", "n", "b", "_", "a", "p", "r", ".", "p", "d", "f">>,   \* 'pnb_apr.pdf'
   PUNJAB_NATIONAL |-> <<"P", "u", "n", "j", "a", "b", " ", "N", "a", "t", "i", "o", "n", "a", "l", ".", "p", "d", "f">>,   \* 'Punjab National.pdf'
   YES |-> <<"Y", "e", "s", " ", "B", "a", "n", "k", ".", "p", "d", "f">>,   \* 'Yes Bank.pdf'
   UNION_BANK |-> <<"U", "N", "I", "O", "N", ".", "p", "d", "f">>,   \* 'UNION.pdf'
   INDIAN |-> <<"I", "n", "d", "i", "a", "n", " ", "B", "a", "n", "k", ".", "p", "d", "f">>,   \* 'Indian Bank.pdf'
   SBI |-> <<"S", "B", "I", ".", "p", "d", "f">>,   \* 'SBI.pdf'
   DHANLAXMI |-> <<"D", "h", "a", "n", "l", "a", "x", "m", "i", ".", "p", "d", "f">>,   \* 'Dhanlaxmi.pdf'
   SARASWAT |-> <<"S", "A", "R", "A", "S", "W", "A", "T", ".", "p", "d", "f">>,   \* 'SARASWAT.pdf'
   IDBI |-> <<"i", "d", "b", "i", ".", "p", "d", "f">>,   \* 'idbi.pdf'
   IDFC |-> <<"I", "D", "F", "C", "F", "I", "R", "S", "T", ".", "p", "d", "f">>,   \* 'IDFCFIRST.pdf'
   IOB |-> <<"I", "n", "d", "i", "a", "n", " ", "O", "v", "e", "r", "s", "e", "a", "s", ".", "p", "d", "f">>,   \* 'Indian Overseas.pdf'
   HDFC |-> <<"h", "d", "f", "c", "_", "s", "t", "m", "t", ".", "p", "d", "f">>,   \* 'hdfc_stmt.pdf'
   AXIS |-> <<"A", "x", "i", "s", ".", "p", "d", "f">>,   \* 'Axis.pdf'
   INDUSIND |-> <<"I", "n", "d", "u", "s", "I", "n", "d", ".", "p", "d", "f">>,   \* 'IndusInd.pdf'
   AU |-> <<"A", "U", ".", "p", "d", "f">>,   \* 'AU.pdf'
   ICICI |-> <<"I", "C", "I", "C", "I", ".", "p", "d", "f">>,   \* 'ICICI.pdf'
   KOTAK |-> <<"K", "o", "t", "a", "k", ".", "p", "d", "f">>,   \* 'Kotak.pdf'
   UCO |-> <<"U", "C", "O", ".", "p", "d", "f">>,   \* 'UCO.pdf'
   CBI |-> <<"C", "e", "n", "t", "r", "a", "l", " ", "B", "a", "n", "k", ".", "p", "d", "f">>,   \* 'Central Bank.pdf'
   PSB |-> <<"P", "u", "n", "j", "a", "b", " ", "&", " ", "S", "i", "n", "d", ".", "p", "d", "f">>,   \* 'Punjab & Sind.pdf'
   CANARA |-> <<"C", "a", "n", "a", "r", "a", ".", "p", "d", "f">>,   \* 'Canara.pdf'
   EQUITAS |-> <<"E", "q", "u", "i", "t", "a", "s", ".", "p", "d", "f">>,   \* 'Equitas.pdf'
   FEDERAL |-> <<"F", "e", "d", "e", "r", "a", "l", " ", "B", "a", "n", "k", ".", "p", "d", "f">>,   \* 'Federal Bank.pdf'
   BANDHAN |-> <<"B", "a", "n", "d", "h", "a", "n", ".", "p", "d", "f">>,   \* 'Bandhan.pdf'
   BARODA |-> <<"B", "a", "r", "o", "d", "a", ".", "p", "d", "f">>,   \* 'Baroda.pdf'
   BOI |-> <<"B", "a", "n", "k", " ", "o", "f", " ", "I", "n", "d", "i", "a", ".", "p", "d", "f">>,   \* 'Bank of India.pdf'
   UNKNOWN |-> <<"s", "t", "m", "t", ".", "p", "d", "f">>,   \* 'stmt.pdf'
   KOTAK_AUG |-> <<"K", "o", "t", "a", "k", " ", "A", "u", "g", ".", "p", "d", "f">>,   \* 'Kotak Aug.pdf'
   ICICI_GAURAV |-> <<"I", "C", "I", "C", "I", " ", "G", "a", "u", "r", "a", "v", ".", "p", "d", "f">>]   \* 'ICICI Gaurav.pdf'

\* page texts as page.extract_text() returns them
Pg ==
  [PLAIN |-> <<"S", "t", "a", "t", "e", "m", "e", "n", "t", "\n", "0", "1", "/", "0", "4", "/", "2", "4">>,   \* 'Statement\n01/04/24'
   PNB2 |-> <<"D", "a", "t", "e", " ", "I", "n", "s", "t", "r", "u", "m", "e", "n", "t", " ", "I", "D", " ", "A", "m", "o", "u", "n", "t", " ", "T", "y", "p", "e", " ", "B", "a", "l", "a", "n", "c", "e", " ", "R", "e", "m", "a", "r", "k", "s">>,   \* 'Date Instrument ID Amount Type Balance Remarks'
   YES2 |-> <<"T", "r", "a", "n", "s", "a", "c", "t", "i", "o", "n", " ", "D", "a", "t", "e", " ", "V", "a", "l", "u", "e", " ", "D", "a", "t", "e">>,   \* 'Transaction Date Value Date'
   UNION4 |-> <<"S", "I", " ", "D", "a", "t", "e", " ", "P", "a", "r", "t", "i", "c", "u", "l", "a", "r", "s", " ", "C", "h", "q", " ", "N", "u", "m">>,   \* 'SI Date Particulars Chq Num'
   UNION3 |-> <<"D", "a", "t", "e", " ", "P", "a", "r", "t", "i", "c", "u", "l", "a", "r", "s", " ", "C", "h", "q", ".", "N", "o", ".">>,   \* 'Date Particulars Chq.No.'
   UNION2 |-> <<"S", ".", "N", "o", " ", "D", "a", "t", "e", " ", "T", "r", "a", "n", "s", "a", "c", "t", "i", "o", "n", " ", "I", "d", " ", "R", "e", "m", "a", "r", "k", "s">>,   \* 'S.No Date Transaction Id Remarks'
   INDIAN7 |-> <<"D", "a", "t", "e", " ", "T", "r", "a", "n", "s", "a", "c", "t", "i", "o", "n", " ", "D", "e", "t", "a", "i", "l", "s", " ", "D", "e", "b", "i", "t", "s">>,   \* 'Date Transaction Details Debits'
   SBI3 |-> <<"T", "r", "a", "n", "s", "a", "c", "t", "i", "o", "n", " ", "A", "c", "c", "o", "u", "n", "t", "s", "\n", "L", "o", "a", "n", " ", "A", "c", "c", "o", "u", "n", "t", "s">>,   \* 'Transaction Accounts\nLoan Accounts'
   SBI2 |-> <<"P", "o", "s", "t", " ", "D", "a", "t", "e", " ", "V", "a", "l", "u", "e", " ", "D", "a", "t", "e", " ", "D", "e", "s", "c", "r", "i", "p", "t", "i", "o", "n", " ", "C", "h", "e", "q", "u", "e", " ", "N", "o", "/", "R", "e", "f", "e", "r", "e", "n", "c", "e">>,   \* 'Post Date Value Date Description Cheque No/Reference'
   IDBI3 |-> <<"S", ".", "N", "o", " ", "T", "x", "n", " ", "D", "a", "t", "e", " ", "V", "a", "l", "u", "e", " ", "D", "a", "t", "e", " ", "D", "e", "s", "c", "r", "i", "p", "t", "i", "o", "n">>,   \* 'S.No Txn Date Value Date Description'
   IDBI4 |-> <<"B", "a", "l", "a", "n", "c", "e", " ", "(", "I", "N", "R", ")", " ", "A", "m", "o", "u", "n", "t", " ", "(", "I", "N", "R", ")">>,   \* 'Balance (INR) Amount (INR)'
   HDFC |-> <<"D", "a", "t", "e", " ", "N", "a", "r", "r", "a", "t", "i", "o", "n", " ", "C", "h", "q", ".", "/", "R", "e", "f", ".", "N", "o", ".", " ", "V", "a", "l", "u", "e", " ", "D", "t", " ", "W", "i", "t", "h", "d", "r", "a", "w", "a", "l">>,   \* 'Date Narration Chq./Ref.No. Value Dt Withdrawal'
   HDFC_SPLIT |-> <<"N", "a", "r", "r", "a", "t", "i", "o", "n", " ", "C", "h", "q", ".", "/", "R", "e", "f", ".", "N", "o", ".", " ", "V", "a", "l", "\n", "u", "e", " ", "D", "t">>,   \* 'Narration Chq./Ref.No. Val\nue Dt'
   AXIS1 |-> <<"S", ".", "N", "O", " ", "T", "r", "a", "n", "s", "a", "c", "t", "i", "o", "n", " ", "D", "a", "t", "e">>,   \* 'S.NO Transaction Date'
   AXIS2 |-> <<"T", "r", "a", "n", " ", "D", "a", "t", "e", " ", "C", "h", "q", " ", "N", "o", " ", "P", "a", "r", "t", "i", "c", "u", "l", "a", "r", "s">>,   \* 'Tran Date Chq No Particulars'
   IFSC_INDB |-> <<"I", "F", "S", "C", ":", " ", "I", "N", "D", "B", "0", "0", "0", "0", "1", "2", "3">>,   \* 'IFSC: INDB0000123'
   SOUTH_IND |-> <<"S", "o", "u", "t", "h", " ", "I", "n", "d", " ", "B", "a", "n", "k">>,   \* 'South Ind Bank'
   INDUSIND2 |-> <<"I", "N", "D", "B", " ", "F", "i", "n", "s", "e", "n", "s", "e", " ", "S", "e", "c", "u", "r", "i", "t", "i", "e", "s">>,   \* 'INDB Finsense Securities'
   INDUSIND5 |-> <<"B", "a", "n", "k", " ", "R", "e", "f", "e", "r", "e", "n", "c", "e", " ", "V", "a", "l", "u", "e", " ", "D", "a", "t", "e", " ", "T", "r", "a", "n", "s", "a", "c", "t", "i", "o", "n">>,   \* 'Bank Reference Value Date Transaction'
   INDUSIND4 |-> <<"C", "h", "q", ".", "/", "R", "e", "f", ".", "N", "o", " ", "W", "i", "t", "h", "d", "r", "a", "w", "a", "l", " ", "D", "e", "p", "o", "s", "i", "t", " ", "B", "a", "l", "a", "n", "c", "e">>,   \* 'Chq./Ref.No Withdrawal Deposit Balance'
   INDUSIND3 |-> <<"D", "a", "t", "e", " ", " ", "T", "y", "p", "e", " ", "D", "e", "s", "c", "r", "i", "p", "t", "i", "o", "n", "\n", "D", "e", "b", "i", "t", " ", "C", "r", "e", "d", "i", "t", " ", "B", "a", "l", "a", "n", "c", "e">>,   \* 'Date  Type Description\nDebit Credit Balance'
   AU4 |-> <<"D", "e", "s", "c", "r", "i", "p", "t", "i", "o", "n", "/", "N", "a", "r", "r", "a", "t", "i", "o", "n">>,   \* 'Description/Narration'
   AU4_B |-> <<"A", "c", "c", "o", "u", "n", "t", " ", "S", "t", "a", "t", "e", "m", "e", "n", "t", "\n", "A", "U", " ", "S", "m", "a", "l", "l", " ", "F", "i", "n", "a", "n", "c", "e", " ", "B", "a", "n", "k">>,   \* 'Account Statement\nAU Small Finance Bank'
   AU3 |-> <<"T", "x", "n", " ", "D", "a", "t", "e", " ", "V", "a", "l", "u", "e">>,   \* 'Txn Date Value'
   ICICI3 |-> <<"D", "a", "t", "e", " ", "D", "e", "s", "c", "r", "i", "p", "t", "i", "o", "n", " ", "A", "m", "o", "u", "n", "t", " ", "T", "y", "p", "e">>,   \* 'Date Description Amount Type'
   ICICI2 |-> <<"S", "n", "o", ".", " ", "V", "a", "l", "u", "e", " ", "D", "a", "t", "e", " ", "T", "r", "a", "n", "s", "a", "c", "t", "i", "o", "n", " ", "D", "a", "t", "e">>,   \* 'Sno. Value Date Transaction Date'
   IFSC_KKBK |-> <<"I", "F", "S", "C", " ", "k", "k", "b", "k", "0", "0", "0", "0", "9", "5", "8">>,   \* 'IFSC kkbk0000958'
   KOTAK3 |-> <<"D", "a", "t", "e", " ", "N", "a", "r", "r", "a", "t", "i", "o", "n", " ", "C", "h", "q", "/", "R", "e", "f", " ", "N", "o", " ", "W", "i", "t", "h", "d", "r", "a", "w", "a", "l", " ", "(", "D", "r", ")", "/", " ", "D", "e", "p", "o", "s", "i", "t", " ", "(", "C", "r", ")", " ", "B", "a", "l", "a", "n", "c", "e">>,   \* 'Date Narration Chq/Ref No Withdrawal (Dr)/ Deposit (Cr) Balance'
   KOTAK2 |-> <<"D", "a", "t", "e", " ", "N", "a", "r", "r", "a", "t", "i", "o", "n", " ", "C", "h", "q", "/", "R", "e", "f", " ", "N", "o", ".", " ", "W", "i", "t", "h", "d", "r", "a", "w", "a", "l">>,   \* 'Date Narration Chq/Ref No. Withdrawal'
   CBI3 |-> <<"D", "a", "t", "e", " ", "P", "a", "r", "t", "i", "c", "u", "l", "a", "r", "s", " ", "W", "i", "t", "h", "d", "r", "a", "w", "a", "l", "s">>,   \* 'Date Particulars Withdrawals'
   CBI2 |-> <<"P", "o", "s", "t", " ", "D", "a", "t", "e", " ", "V", "a", "l", "u", "e", " ", "D", "a", "t", "e">>,   \* 'Post Date Value Date'
   CBI1 |-> <<"P", "o", "s", "t", " ", "D", "a", "t", "e", " ", "T", "x", "n", " ", "D", "a", "t", "e">>,   \* 'Post Date Txn Date'
   CANARA2 |-> <<"T", "x", "n", " ", "D", "a", "t", "e", " ", "V", "a", "l", "u", "e", " ", "D", "a", "t", "e", " ", "C", "h", "e", "q", "u", "e">>,   \* 'Txn Date Value Date Cheque'
   BOB4 |-> <<"W", "I", "T", "H", "D", "R", "A", "W", "A", "L", " ", "(", "D", "R", ")", " ", "D", "E", "P", "O", "S", "I", "T", " ", "(", "C", "R", ")", " ", "B", "A", "L", "A", "N", "C", "E">>]   \* 'WITHDRAWAL (DR) DEPOSIT (CR) BALANCE'

Filenames == {Fn[k] : k \in DOMAIN Fn}
PageTexts == {Pg[k] : k \in DOMAIN Pg}

(***************************************************************************)
(* Input documents of the router machine.                                  *)
(***************************************************************************)
\* the slice text[:1500] that the router fingerprints
PrefixLen == 1500

\* a cover page of PrefixLen rule characters: what follows it lies outside the slice
FillerPage == [i \in 1..PrefixLen |-> "="]

\* the parsers whose result the router tests with df.empty / result.empty
ConsultedParsers == {"parse_axis_bank_format1", "parse_bank_of_baroda", "parse_au_bank"}

\* documents: page texts as pypdf returns them, whether the reader reports the
\* document encrypted or raises, and which of the consulted parsers extract at
\* least one row from the document's text
ReadablePages ==
  {<<>>} \cup {<<t>> : t \in PageTexts}
         \cup {<<FillerPage, t>> : t \in {Pg.AXIS1, Pg.IFSC_INDB, Pg.HDFC, Pg.BOB4}}
Pdfs ==
  [encrypted : {FALSE}, broken : {FALSE}, pages : ReadablePages,
   yields : {{}} \cup {{q} : q \in ConsultedParsers}]
  \cup {[encrypted |-> TRUE, broken |-> FALSE, pages |-> <<Pg.PLAIN>>, yields |-> {}],
        [encrypted |-> FALSE, broken |-> TRUE, pages |-> <<Pg.PLAIN>>, yields |-> {}]}

NoText == <<"None">>
NoParser == "none"
NoPrev == [invoked |-> <<"-">>, result_from |-> {"-"}, same_bytes |-> FALSE]

(***************************************************************************)
(* extract_text_from_pdf                                                   *)
(***************************************************************************)
RECURSIVE JoinPages(_)
JoinPages(pages) ==
  IF pages = <<>> THEN <<>>
  ELSE Head(pages) \o Lit.PAGE_BREAK \o JoinPages(Tail(pages))

\* variant: the is_encrypted test left out
extract_text_ignoring_encryption(p) ==
  IF p.broken THEN NoText ELSE JoinPages(p.pages)

extract_text_from_pdf(p) ==
  IF p.broken THEN NoText            \* except Exception: return None
  ELSE IF p.encrypted THEN NoText    \* is_encrypted: return None
  ELSE JoinPages(p.pages)

(***************************************************************************)
(* parse_bank_statement: selection of the parser(s)                        *)
(***************************************************************************)
upper_filename(fn) == Upper(fn)
\* variant: the fingerprints looked for in the whole text
upper_text_unsliced(t) == Upper(t)

upper_text(t) == Upper(Take(t, PrefixLen))
clean_upper_text(t) == StripSpace(upper_text(t))

One(p) == [primary |-> p, secondary |-> NoParser]
Two(p, q) == [primary |-> p, secondary |-> q]

\* variant: Format 2 as the default of the HDFC branch
hdfc_branch_default_format2(ut, ct) ==
  LET has_value_dt == Contains(ut, Lit.FP_VALUE) /\ Contains(ut, Lit.FP_DT)
      has_chq_ref == Contains(ut, Lit.FP_CHQ) \/ Contains(ut, Lit.FP_REF)
  IN IF has_value_dt /\ has_chq_ref THEN One("parse_hdfc_bank")
     ELSE One("parse_hdfc_bank_format2")

hdfc_branch(ut, ct) ==
  LET has_value_dt == Contains(ut, Lit.FP_VALUE) /\ Contains(ut, Lit.FP_DT)
      has_chq_ref == Contains(ut, Lit.FP_CHQ) \/ Contains(ut, Lit.FP_REF)
  IN IF has_value_dt /\ has_chq_ref THEN One("parse_hdfc_bank")
     ELSE IF Contains(ct, Lit.FP_HDFC2) THEN One("parse_hdfc_bank_format2")
     ELSE One("parse_hdfc_bank")

axis_branch(ut, ct) ==
  IF Contains(ct, Lit.FP_AXIS1) THEN One("parse_axis_bank_format1")
  ELSE IF Contains(ct, Lit.FP_AXIS2) THEN One("parse_axis_bank_format2")
  ELSE Two("parse_axis_bank_format1", "parse_axis_bank_format2")

indusind_branch(ut, ct) ==
  IF Contains(ct, Lit.FP_INDUSIND2) THEN One("parse_indusind_bank_format2")
  ELSE IF Contains(ct, Lit.FP_INDUSIND5) THEN One("parse_indusind_bank_format5")
  ELSE IF Contains(ct, Lit.FP_INDUSIND4) THEN One("parse_indusind_bank_format4")
  ELSE IF Contains(CollapseSpace(ut), Lit.FP_INDUSIND3) THEN One("parse_indusind_bank_format3")
  ELSE One("parse_indusind_bank")

au_branch(ut, ct) ==
  LET format4_indicators ==
        \/ Contains(ut, Lit.FP_TRANSACTION) /\ Contains(ut, Lit.FP_VALUE_DATE)
        \/ Contains(ut, Lit.FP_DESC_NARR)
        \/ Contains(ut, Lit.FP_ACCOUNT_STATEMENT) /\ Contains(ut, Lit.FP_AU_SFB)
  IN IF format4_indicators THEN One("parse_au_bank_format4")
     ELSE IF Contains(ct, Lit.FP_AU3) THEN One("parse_au_bank_format3")
     ELSE Two("parse_au_bank", "parse_au_bank_format4")

kotak_branch(ut, ct) ==
  IF Contains(ct, Lit.FP_KOTAK3) THEN One("parse_kotak_bank_v3")
  ELSE IF Contains(ct, Lit.FP_KOTAK2) THEN One("parse_kotak_bank_format2")
  ELSE One("parse_kotak_bank")

baroda_branch(ut, ct) ==
  IF Contains(ut, Lit.FP_BOB4) THEN One("parse_bank_of_baroda_format4")
  ELSE Two("parse_bank_of_baroda", "parse_bank_of_baroda_format2")

pnb_branch(ut, ct) ==
  IF Contains(ct, Lit.FP_PNB2) THEN One("parse_punjab_national_bank_v2")
  ELSE One("parse_punjab_national_bank_v1")

yes_branch(ut, ct) ==
  IF Contains(ut, Lit.FP_YES2) THEN One("parse_yes_bank_format2")
  ELSE One("parse_yes_bank")

union_branch(ut, ct) ==
  IF Contains(ct, Lit.FP_UNION4) THEN One("parse_union_bank_format4")
  ELSE IF Contains(ct, Lit.FP_UNION3) THEN One("parse_union_bank_v3")
  ELSE IF Contains(ct, Lit.FP_UNION2) THEN One("parse_union_bank_v2")
  ELSE One("parse_union_bank")

indian_branch(ut, ct) ==
  IF Contains(ct, Lit.FP_INDIAN7) THEN One("parse_indian_bank_v7")
  ELSE One("parse_indian_bank_v6")

sbi_branch(ut, ct) ==
  IF Contains(ut, Lit.FP_SBI3_A) /\ Contains(ut, Lit.FP_SBI3_B) THEN One("parse_sbi_bank_v3")
  ELSE IF Contains(ct, Lit.FP_SBI2) THEN One("parse_sbi_bank_v2")
  ELSE One("parse_sbi_bank")

idbi_branch(ut, ct) ==
  IF Contains(ct, Lit.FP_IDBI3) THEN One("parse_idbi_bank_format3")
  ELSE IF Contains(ct, Lit.FP_IDBI4) THEN One("parse_idbi_bank_v4")
  ELSE One("parse_idbi_bank_format2")

icici_branch(ut, ct) ==
  IF Contains(ut, Lit.FP_ICICI3) THEN One("parse_icici_bank_format3")
  ELSE IF Contains(ct, Lit.FP_ICICI2) THEN One("parse_icici_bank_format2")
  ELSE One("parse_icici_bank")

uco_branch(ut, ct) ==
  IF Contains(ct, Lit.FP_UCO2) THEN One("parse_uco_bank_v2")
  ELSE One("parse_uco_bank")

central_branch(ut, ct) ==
  IF Contains(ct, Lit.FP_CBI3) THEN One("parse_central_bank_of_india_format3")
  ELSE IF Contains(ct, Lit.FP_CBI2) THEN One("parse_central_bank_of_india_format2")
  ELSE IF Contains(ct, Lit.FP_CBI1) THEN One("parse_central_bank_of_india")
  ELSE One("parse_central_bank_of_india")

canara_branch(ut, ct) ==
  IF Contains(ut, Lit.FP_CANARA2) THEN One("parse_canara_bank_format2")
  ELSE One("parse_canara_bank")

\* the conditions of the if/elif chain of parse_bank_statement, in source order:
\* the branch that is entered for upper_filename uf and clean_upper_text ct
BankBranch(uf, ct) ==
  IF Contains(uf, Lit.KEY_PUNJAB_NATIONAL) \/ Contains(uf, Lit.KEY_PNB) THEN "PNB"
  ELSE IF Contains(uf, Lit.KEY_YES_BANK) THEN "YES"
  ELSE IF Contains(uf, Lit.KEY_UNION) THEN "UNION"
  ELSE IF Contains(uf, Lit.KEY_INDIAN_BANK) THEN "INDIAN"
  ELSE IF Contains(uf, Lit.KEY_SBI) THEN "SBI"
  ELSE IF Contains(uf, Lit.KEY_DHANLAXMI) THEN "DHANLAXMI"
  ELSE IF Contains(uf, Lit.KEY_SARASWAT) THEN "SARASWAT"
  ELSE IF Contains(uf, Lit.KEY_IDBI) THEN "IDBI"
  ELSE IF Contains(uf, Lit.KEY_IDFCFIRST) THEN "IDFC"
  ELSE IF Contains(uf, Lit.KEY_INDIAN_OVERSEAS) THEN "IOB"
  ELSE IF Contains(uf, Lit.KEY_HDFC) THEN "HDFC"
  ELSE IF Contains(uf, Lit.KEY_AXIS) THEN "AXIS"
  ELSE IF Contains(uf, Lit.KEY_INDUSIND) \/ Contains(ct, Lit.FP_INDB) THEN "INDUSIND"
  ELSE IF Contains(uf, Lit.KEY_AU) THEN "AU"
  ELSE IF Contains(uf, Lit.KEY_ICICI) THEN "ICICI"
  ELSE IF Contains(uf, Lit.KEY_KOTAK) \/ Contains(ct, Lit.FP_KKBK) THEN "KOTAK"
  ELSE IF Contains(uf, Lit.KEY_UCO) THEN "UCO"
  ELSE IF Contains(uf, Lit.KEY_CENTRAL_BANK) THEN "CENTRAL"
  ELSE IF Contains(uf, Lit.KEY_PUNJAB_SIND) THEN "PUNJAB_SIND"
  ELSE IF Contains(uf, Lit.KEY_CANARA) THEN "CANARA"
  ELSE IF Contains(uf, Lit.KEY_EQUITAS) THEN "EQUITAS"
  ELSE IF Contains(uf, Lit.KEY_FEDERAL_BANK) THEN "FEDERAL"
  ELSE IF Contains(uf, Lit.KEY_BANDHAN) THEN "BANDHAN"
  ELSE IF Contains(uf, Lit.KEY_BARODA) THEN "BARODA"
  ELSE IF Contains(uf, Lit.KEY_BANK_OF_INDIA) THEN "BOI"
  ELSE "NONE"

\* the body of the branch: the parser called first and, in the three fallback
\* branches, the parser called when the first returns an empty frame
FormatPlan(branch, ut, ct) ==
  CASE branch = "PNB" -> pnb_branch(ut, ct)
    [] branch = "YES" -> yes_branch(ut, ct)
    [] branch = "UNION" -> union_branch(ut, ct)
    [] branch = "INDIAN" -> indian_branch(ut, ct)
    [] branch = "SBI" -> sbi_branch(ut, ct)
    [] branch = "DHANLAXMI" -> One("parse_dhanlaxmi_bank_v2")
    [] branch = "SARASWAT" -> One("parse_saraswat_bank_v6")
    [] branch = "IDBI" -> idbi_branch(ut, ct)
    [] branch = "IDFC" -> One("parse_idfc_first_bank")
    [] branch = "IOB" -> One("parse_indian_overseas_bank")
    [] branch = "HDFC" -> hdfc_branch(ut, ct)
    [] branch = "AXIS" -> axis_branch(ut, ct)
    [] branch = "INDUSIND" -> indusind_branch(ut, ct)
    [] branch = "AU" -> au_branch(ut, ct)
    [] branch = "ICICI" -> icici_branch(ut, ct)
    [] branch = "KOTAK" -> kotak_branch(ut, ct)
    [] branch = "UCO" -> uco_branch(ut, ct)
    [] branch = "CENTRAL" -> central_branch(ut, ct)
    [] branch = "PUNJAB_SIND" -> One("parse_punjab_sind_bank")
    [] branch = "CANARA" -> canara_branch(ut, ct)
    [] branch = "EQUITAS" -> One("parse_equitas_bank")
    [] branch = "FEDERAL" -> One("parse_federal_bank")
    [] branch = "BANDHAN" -> One("parse_bandhan_bank")
    [] branch = "BARODA" -> baroda_branch(ut, ct)
    [] branch = "BOI" -> One("parse_bank_of_india")
    [] OTHER -> One(NoParser)

\* the routing decision of parse_bank_statement for filename fn and text t
RouterPlan(fn, t) ==
  LET uf == upper_filename(fn)
      ut == upper_text(t)
      ct == clean_upper_text(t)
  IN FormatPlan(BankBranch(uf, ct), ut, ct)

\* df.empty of a consulted parser's result on this document
ReturnsEmpty(p, doc) == p \notin doc.yields

\* the columns of pd.DataFrame(transactions), of pd.DataFrame(), and the value
\* of result_columns while no DataFrame was returned
Columns == {"Date", "Narration", "Withdrawal Amt.", "Deposit Amt.", "Closing Balance"}
NoColumns == {}
NoResult == {"-"}

\* the columns a parser's result can have: every parser ends with
\* `if not transactions: return pd.DataFrame()` and otherwise returns a frame
\* of the transaction dicts; which of the two it is depends on the document
ParserResultColumns(q, doc) ==
  IF q \in ConsultedParsers
    THEN {IF ReturnsEmpty(q, doc) THEN NoColumns ELSE Columns}
    ELSE {NoColumns, Columns}

(***************************************************************************)
(* Parser machine: tokens, conversions and rows.                           *)
(*                                                                         *)
(* A block is what a parser's field patterns extract from one assembled    *)
(* transaction block: the date string, the narration and the money         *)
(* strings.  Money is counted in units of 0.001.                           *)
(***************************************************************************)
\* the tolerance 0.001 of the balance comparisons
Eps == 1

\* number of transaction blocks of a statement
MaxBlocks == 2

Rupees(r) == r * 1000

\* the amount printed in the amount column
Amount == Rupees(5000)

\* the values printed in the balance column
BalanceVals == {Rupees(15000), Rupees(20000), Rupees(20000) + 1, Rupees(25000)}

\* money strings, by how the conversions treat them:
\*   num  ""  v : "5,000.00"       num "-" v : "-5,000.00"     num "+" v : "+5,000.00"
\*   dash       : "-"              junk      : "5.0.0" (digits and dots, not a number)
Plain(v) == [kind |-> "num", sign |-> "", mag |-> v]
Signed(s, v) == [kind |-> "num", sign |-> s, mag |-> v]
Dash == [kind |-> "dash", sign |-> "", mag |-> 0]
Junk == [kind |-> "junk", sign |-> "", mag |-> 0]
Absent == [kind |-> "absent", sign |-> "", mag |-> 0]
\* a word that is no money string, such as the words of "--- PAGE BREAK ---"
Word == [kind |-> "word", sign |-> "", mag |-> 0]

\* date strings: "valid" is a calendar date in the parser's format; "invalid"
\* matches the parser's digit pattern but is no calendar date (e.g. 31/02/24)
DateTokens == {"valid", "invalid"}

\* narrations
N_CREDIT == <<"N", "E", "F", "T", " ", "C", "R", " ", "S", "A", "L", "A", "R", "Y">>
N_DEBIT == <<"A", "C", "H", " ", "D", "R", " ", "W", "D", "L", " ", "E", "M", "I">>
Narrations == {N_CREDIT, N_DEBIT}

NoBalance == <<>>
Some(v) == <<v>>
NoRow == <<>>

\* float(s.replace(',', '')): the value, or ValueError
Float(tok) ==
  IF tok.kind = "num"
    THEN [ok |-> TRUE, v |-> IF tok.sign = "-" THEN 0 - tok.mag ELSE tok.mag]
    ELSE [ok |-> FALSE, v |-> 0]

\* pd.to_numeric(s.replace(',', ''), errors='coerce') followed by fillna(0)
ToNumericOrZero(tok) == IF Float(tok).ok THEN Float(tok).v ELSE 0

\* pd.to_datetime(s, format=..., errors='coerce')
ToDatetimeCoerce(d) == IF d = "valid" THEN "date" ELSE "NaT"

\* pd.to_datetime(s, format=...): raises ValueError on a string that is no date
ToDatetimeRaises(d) == d # "valid"

\* one element of `transactions`; amt, prev and idx are bookkeeping of the model:
\* the amount the inference was given, the balance it compared with, and the
\* position of the row in `transactions`
MkRow(date, narr, w, d, closing, amt, prevbal, i) ==
  [Date |-> date, Narration |-> narr, Withdrawal |-> w, Deposit |-> d,
   Closing |-> closing, amt |-> amt, prev |-> prevbal, idx |-> i]

Produced(row, bal) == [row |-> <<row>>, bal |-> bal]
\* variant: a rejection that forgets the running balance
RejectedForgetsBalance(prevbal) == [row |-> NoRow, bal |-> NoBalance]
Rejected(prevbal) == [row |-> NoRow, bal |-> prevbal]

Abs(x) == IF x < 0 THEN 0 - x ELSE x

(***************************************************************************)
(* The blocks a statement can hold, per format.                            *)
(***************************************************************************)
\* ok: the block's text satisfies the parser's field pattern
\* page_end: the block is the last of its page, so that the line
\* "--- PAGE BREAK ---" follows its money strings in the text
Blk(date, narr, amt, amt2, bal, suffix, ok) ==
  [date |-> date, narr |-> narr, amt |-> amt, amt2 |-> amt2, bal |-> bal,
   suffix |-> suffix, ok |-> ok, page_end |-> FALSE]

OnPageEnd(b) == [b EXCEPT !.page_end = TRUE]
NotOnPageEnd(b) == [b EXCEPT !.page_end = FALSE]

NoMatchBlock == Blk("valid", N_CREDIT, Junk, Absent, Junk, "", FALSE)

PlainBalances == {Plain(v) : v \in BalanceVals}
TwoBalances == {Plain(Rupees(20000)), Plain(Rupees(25000))}
AnyAmount == {Plain(Amount), Signed("-", Amount), Signed("+", Amount), Dash, Junk}

\* every money string the format's pattern admits, on a well dated block; and
\* both date strings and narrations, on a block with plain money strings
SingleAmountBlocks(amts, bals, suffixes) ==
  {Blk("valid", N_CREDIT, a, Absent, bl, IF "Cr" \in suffixes THEN "Cr" ELSE "", TRUE) :
     a \in amts, bl \in bals}
  \cup {Blk(d, n, Plain(Amount), Absent, bl, s, TRUE) :
          d \in DateTokens, n \in Narrations, bl \in TwoBalances, s \in suffixes}
  \cup {NoMatchBlock}

DualColumnBlocks(debits, credits, bals) ==
  {Blk("valid", N_CREDIT, a, c, bl, "", TRUE) : a \in debits, c \in credits, bl \in bals}
  \cup {Blk(d, n, Dash, Plain(Amount), Plain(Rupees(25000)), "", TRUE) :
          d \in DateTokens, n \in Narrations}
  \cup {NoMatchBlock}

ModelledParsers ==
  {"parse_hdfc_bank", "parse_kotak_bank", "parse_bank_of_baroda_format2",
   "parse_axis_bank_format2", "parse_yes_bank", "parse_indian_bank_v6",
   "parse_sbi_bank", "parse_sbi_bank_v2", "parse_au_bank_format4",
   "parse_punjab_national_bank_v1", "parse_idbi_bank_format3"}

\* the parsers of statements printed newest first, which reverse their frame
\* before returning it
ReverseOrderParsers == {"parse_punjab_national_bank_v1", "parse_idbi_bank_format3"}

\* the parsers that infer debit/credit from the running balance
InferenceParsers ==
  {"parse_axis_bank_format2", "parse_yes_bank", "parse_indian_bank_v6",
   "parse_sbi_bank", "parse_sbi_bank_v2", "parse_au_bank_format4"}

BlocksOf(p) ==
  CASE p = "parse_hdfc_bank" ->
         \* number_pattern \d{1,3}(?:,\d{3})*\.\d{2}: two or three unsigned amounts
         {Blk(d, n, Plain(Amount), Absent, bl, "", TRUE) :
            d \in DateTokens, n \in Narrations, bl \in TwoBalances}
         \cup {Blk("valid", N_CREDIT, a[1], a[2], bl, "", TRUE) :
                 a \in {<<Plain(Amount), Plain(0)>>, <<Plain(0), Plain(Amount)>>},
                 bl \in PlainBalances}
         \cup {NoMatchBlock}
    [] p = "parse_kotak_bank" ->
         \* last_line.split(): any strings
         SingleAmountBlocks(AnyAmount, PlainBalances \cup {Junk}, {""})
    [] p = "parse_bank_of_baroda_format2" ->
         \* ([\d,.-]+)\s+([\d,.-]+)\s+([\d,.]+)$
         DualColumnBlocks({Plain(Amount), Signed("-", Amount), Dash, Junk},
                          {Plain(Amount), Dash}, TwoBalances)
    [] p = "parse_axis_bank_format2" ->
         \* line.split(): any strings
         SingleAmountBlocks(AnyAmount, PlainBalances \cup {Junk}, {""})
    [] p = "parse_yes_bank" ->
         \* number_like_pattern ^-?[\d,.]+$
         SingleAmountBlocks({Plain(Amount), Signed("-", Amount), Junk},
                            PlainBalances \cup {Junk}, {""})
    [] p = "parse_indian_bank_v6" ->
         \* ([\d,.-]+)\s*([\d,.]+(?:Cr|Dr))$
         SingleAmountBlocks({Plain(Amount), Signed("-", Amount), Dash, Junk},
                            PlainBalances \cup {Junk}, {"Cr", "Dr"})
    [] p = "parse_sbi_bank" ->
         \* ([\d,.-]+)\s+([\d,.]+)$
         SingleAmountBlocks({Plain(Amount), Signed("-", Amount), Dash, Junk},
                            PlainBalances \cup {Junk}, {""})
    [] p = "parse_sbi_bank_v2" ->
         \* ([\d,.]+)\s+([\d,.]+)CR$
         SingleAmountBlocks({Plain(Amount), Junk}, PlainBalances \cup {Junk}, {""})
    [] p = "parse_au_bank_format4" ->
         \* (-|[\d,]+\.\d{2})\s+(-|[\d,]+\.\d{2})\s+([\d,]+\.\d{2})
         DualColumnBlocks({Plain(Amount), Dash}, {Plain(Amount), Dash}, PlainBalances)
    [] p = "parse_punjab_national_bank_v1" ->
         \* \s+([\d,.-]+)\s+([\d,.]+\s+Cr\.)\s+(.*)
         SingleAmountBlocks({Plain(Amount), Junk}, PlainBalances, {""})
    [] p = "parse_idbi_bank_format3" ->
         \* ([\d,.]+)\s+([\d,.]+)$
         SingleAmountBlocks({Plain(Amount), Junk}, PlainBalances, {""})

\* the opening balance the parser finds in the text (None when it looks for
\* none or finds none)
OpeningBalances(p) ==
  IF p \in {"parse_axis_bank_format2", "parse_indian_bank_v6", "parse_sbi_bank",
            "parse_sbi_bank_v2", "parse_au_bank_format4"}
    THEN {NoBalance, Some(Rupees(20000))}
    ELSE {NoBalance}

\* the blocks of a statement of parser p: every block in the middle of a page,
\* and the well-formed credit blocks also as the last block of a page
StatementBlocks(p) ==
  BlocksOf(p) \cup
  {OnPageEnd(b) : b \in {x \in BlocksOf(p) :
                           /\ x.ok /\ x.date = "valid" /\ x.narr = N_CREDIT
                           /\ x.bal \in TwoBalances
                           /\ Plain(Amount) \in {x.amt, x.amt2}}}

(***************************************************************************)
(* Block assembly: what the field extraction sees of a block.              *)
(***************************************************************************)
\* the words of the line "--- PAGE BREAK ---"
SentinelWords == <<Word, Word, Word, Word>>

\* the parsers whose assembler does not skip the page-break line:
\* parse_kotak_bank splits the text at the numbered date lines only,
\* parse_sbi_bank removes "--- PAGE \d+ ---" but not "--- PAGE BREAK ---",
\* parse_yes_bank skips only lines starting with "Page " or "Statement of account:"
KeepsSentinel == {"parse_kotak_bank", "parse_sbi_bank", "parse_yes_bank"}

\* the parsers whose field extraction requires the last two words of the block
\* to be number-like (money_pattern_end ...$, number_like_pattern on words[-2:])
MoneyAtEnd == {"parse_sbi_bank", "parse_yes_bank"}

NumberLike(tok) == tok.kind \in {"num", "dash", "junk"}

\* the block as the field extraction of parser p receives it: the last two
\* words of the assembled text are taken as amount and balance
assemble(p, b) ==
  LET words == IF b.page_end /\ p \in KeepsSentinel
                 THEN <<b.amt, b.bal>> \o SentinelWords
                 ELSE <<b.amt, b.bal>>
      n == Len(words)
  IN [b EXCEPT !.amt = words[n - 1],
               !.bal = words[n],
               !.ok = b.ok /\ (p \in MoneyAtEnd => (NumberLike(words[n - 1])
                                                     /\ NumberLike(words[n])))]

\* the value of handled before any block was processed, and after block b was
\* processed against the balance prevbal with the outcome out
NoBlock == <<>>
Handled(b, prevbal, out) == <<[block |-> b, prev |-> prevbal, out |-> out.row]>>

(***************************************************************************)
(* Debit/credit inference.                                                 *)
(***************************************************************************)
Split(w, d) == [w |-> w, d |-> d]

\* variants of the rule with the polarity exchanged, and with every amount
\* booked as a deposit
InferThreeWaySwapped(amount, balance, prevbal) ==
  IF balance > prevbal + Eps THEN Split(amount, 0)
  ELSE IF balance < prevbal - Eps THEN Split(0, amount)
  ELSE Split(0, 0)

InferDepositOnly(amount, balance, prevbal) ==
  IF Abs(balance - prevbal) > Eps THEN Split(0, amount) ELSE Split(0, 0)

\* variant: the amount booked in both columns
InferBothColumns(amount, balance, prevbal) ==
  IF Abs(balance - prevbal) > Eps THEN Split(amount, amount) ELSE Split(0, 0)

\* if balance > prev + 0.001: deposit = amount
\* elif balance < prev - 0.001: withdrawal = amount
\* (parse_indian_bank_v6, parse_sbi_bank, parse_sbi_bank_v2, parse_au_bank_format4)
InferThreeWay(amount, balance, prevbal) ==
  IF balance > prevbal + Eps THEN Split(0, amount)
  ELSE IF balance < prevbal - Eps THEN Split(amount, 0)
  ELSE Split(0, 0)

\* parse_axis_bank_format2: if balance > last_balance + 0.001: deposit = amount
\*                          else: withdrawal = amount
InferAxis2(amount, balance, prevbal) ==
  IF balance > prevbal + Eps THEN Split(0, amount)
  ELSE Split(amount, 0)

\* parse_yes_bank: as InferThreeWay, but on an unchanged balance a positive
\* amount is booked as a withdrawal
InferYes(amount, balance, prevbal) ==
  IF balance > prevbal + Eps THEN Split(0, amount)
  ELSE IF balance < prevbal - Eps THEN Split(amount, 0)
  ELSE IF amount > 0 THEN Split(amount, 0)
  ELSE Split(0, 0)

\* variant: the running balance computed from the previous one and the amounts
new_last_balance_computed(balance, prevbal, s) ==
  IF prevbal = NoBalance THEN Some(balance) ELSE Some(prevbal[1] + s.d - s.w)

\* last_balance after a block that produced a record: the balance extracted
\* from the block (`return txn_data, balance`, `last_balance = balance`)
new_last_balance(balance, prevbal, s) == Some(balance)

(***************************************************************************)
(* The parsers' per-block code.  Each returns [row, bal]: the record        *)
(* appended to `transactions` (NoRow when the block is skipped) and the     *)
(* value of last_balance afterwards.  i is the index the row will have.     *)
(***************************************************************************)

\* parse_hdfc_single_transaction, called for each dated line
hdfc_single_transaction(b, prevbal, i) ==
  IF ~b.ok THEN Rejected(prevbal)            \* fewer than two dates or two amounts
  ELSE
    LET date == ToDatetimeCoerce(b.date)
        balance == Float(b.bal).v
        nu == Upper(b.narr)
        credit == \/ Contains(nu, Kw.KW_CR) \/ Contains(nu, Kw.KW_CREDIT)
                  \/ Contains(nu, Kw.KW_DEPOSIT) \/ Contains(nu, Kw.KW_TRANSFER_CR)
    IN IF b.amt2 # Absent
         THEN Produced(MkRow(date, b.narr, Float(b.amt).v, Float(b.amt2).v, balance,
                             Float(b.amt).v, NoBalance, i), prevbal)
         ELSE IF credit
           THEN Produced(MkRow(date, b.narr, 0, Float(b.amt).v, balance,
                               Float(b.amt).v, NoBalance, i), prevbal)
           ELSE Produced(MkRow(date, b.narr, Float(b.amt).v, 0, balance,
                               Float(b.amt).v, NoBalance, i), prevbal)

\* parse_kotak_bank: the body of `for block in blocks`
kotak_block(b, prevbal, i) ==
  IF ~b.ok THEN Rejected(prevbal)
  ELSE
    \* float(amount_str.replace(',', '').replace('+', ''))
    LET amount == Float(b.amt)
    IN IF ~amount.ok \/ ToDatetimeRaises(b.date)
         THEN Rejected(prevbal)              \* except (ValueError, ...): continue
         ELSE
           LET withdrawal == IF b.amt.sign = "-" THEN amount.v ELSE 0
               deposit == IF b.amt.sign = "+" THEN amount.v ELSE 0
           IN Produced(MkRow("date", b.narr, withdrawal, deposit, b.bal,
                             amount.v, NoBalance, i), prevbal)

\* parse_bank_of_baroda_format2: the body of `for line in cleaned_lines`
baroda2_line(b, prevbal, i) ==
  IF ~b.ok THEN Rejected(prevbal)
  ELSE IF ToDatetimeRaises(b.date) THEN Rejected(prevbal)
  ELSE Produced(MkRow("date", b.narr, b.amt, b.amt2, b.bal, 0, NoBalance, i), prevbal)

\* parse_axis_bank_format2: the body of `for line in cleaned_lines`
axis2_line(b, prevbal, i) ==
  IF ~b.ok THEN Rejected(prevbal)
  ELSE
    LET balance == Float(b.bal)
        amount == Float(b.amt)
    IN IF ~balance.ok \/ ~amount.ok \/ ToDatetimeRaises(b.date)
         THEN Rejected(prevbal)              \* except (ValueError, IndexError): continue
         ELSE
           LET s == IF prevbal # NoBalance
                      THEN InferAxis2(amount.v, balance.v, prevbal[1])
                      ELSE Split(amount.v, 0)
           IN Produced(MkRow("date", b.narr, s.w, s.d, balance.v, amount.v, prevbal, i),
                       new_last_balance(balance.v, prevbal, s))

\* parse_yes_bank.process_block
yes_process_block(b, prevbal, i) ==
  IF ~b.ok THEN Rejected(prevbal)
  ELSE
    LET amount == Float(b.amt)
        current_balance == Float(b.bal)
    IN IF ~amount.ok \/ ~current_balance.ok \/ ToDatetimeRaises(b.date)
         THEN Rejected(prevbal)              \* except Exception: return None, prev_balance
         ELSE
           LET s == IF prevbal # NoBalance
                      THEN InferYes(amount.v, current_balance.v, prevbal[1])
                      ELSE IF Contains(Upper(b.narr), Kw.KW_ACH_DR)
                             THEN Split(amount.v, 0)
                             ELSE Split(0, amount.v)
           IN Produced(MkRow("date", b.narr, s.w, s.d, current_balance.v, amount.v,
                             prevbal, i),
                       new_last_balance(current_balance.v, prevbal, s))

\* parse_indian_bank_v6.process_block
indian6_process_block(b, prevbal, i) ==
  IF ~b.ok THEN Rejected(prevbal)
  ELSE
    LET balance == Float(b.bal)
        amount == Float(b.amt)
    IN IF ~balance.ok \/ ~amount.ok
         THEN Rejected(prevbal)              \* except Exception: return None, prev_balance
         ELSE
           LET s == IF prevbal # NoBalance
                      THEN InferThreeWay(amount.v, balance.v, prevbal[1])
                      ELSE IF b.suffix = "Cr" THEN Split(0, amount.v)
                           ELSE Split(amount.v, 0)
           IN Produced(MkRow(ToDatetimeCoerce(b.date), b.narr, s.w, s.d, balance.v,
                             amount.v, prevbal, i),
                       new_last_balance(balance.v, prevbal, s))

\* parse_sbi_bank: the body of `for i in range(len(date_matches))`
sbi_block(b, prevbal, i) ==
  IF ~b.ok THEN Rejected(prevbal)            \* no money_match: continue
  ELSE
    \* amount_str is "0" for a "-"
    LET amount == IF b.amt = Dash THEN [ok |-> TRUE, v |-> 0] ELSE Float(b.amt)
        current_balance == Float(b.bal)
        nu == Upper(b.narr)
    IN IF ~amount.ok \/ ~current_balance.ok \/ ToDatetimeRaises(b.date)
         THEN Rejected(prevbal)              \* except Exception: continue
         ELSE
           LET s == IF prevbal # NoBalance
                      THEN InferThreeWay(amount.v, current_balance.v, prevbal[1])
                      ELSE IF \/ Contains(nu, Kw.KW_BY_TRANSFER)
                              \/ Contains(nu, Kw.KW_NEFT_SP)
                              \/ Contains(nu, Kw.KW_CR_SP)
                             THEN Split(0, amount.v)
                             ELSE Split(amount.v, 0)
           IN Produced(MkRow("date", b.narr, s.w, s.d, current_balance.v, amount.v,
                             prevbal, i),
                       new_last_balance(current_balance.v, prevbal, s))

\* parse_sbi_bank_v2.process_block
sbi2_process_block(b, prevbal, i) ==
  IF ~b.ok THEN Rejected(prevbal)
  ELSE
    LET amount == Float(b.amt)
        balance == Float(b.bal)
    IN IF ~amount.ok \/ ~balance.ok
         THEN Rejected(prevbal)              \* except Exception: return None, prev_balance
         ELSE
           LET s == IF prevbal # NoBalance
                      THEN InferThreeWay(amount.v, balance.v, prevbal[1])
                      ELSE IF Contains(b.narr, Kw.KW_WDL) THEN Split(amount.v, 0)
                           ELSE Split(0, amount.v)
           IN Produced(MkRow(ToDatetimeCoerce(b.date), b.narr, s.w, s.d, balance.v,
                             amount.v, prevbal, i),
                       new_last_balance(balance.v, prevbal, s))

\* parse_au_bank_format4: the handling of one accumulated transaction
au4_transaction(b, prevbal, i) ==
  IF ~b.ok THEN Rejected(prevbal)            \* no money line among the narration lines
  ELSE
    LET debit == IF b.amt = Dash THEN 0 ELSE Float(b.amt).v
        credit == IF b.amt2 = Dash THEN 0 ELSE Float(b.amt2).v
        balance == Float(b.bal).v
        amount == IF debit > 0 THEN debit ELSE credit
        s == IF prevbal # NoBalance
               THEN InferThreeWay(amount, balance, prevbal[1])
               ELSE IF credit > 0 THEN Split(0, credit) ELSE Split(debit, 0)
    IN Produced(MkRow(ToDatetimeCoerce(b.date), b.narr, s.w, s.d, balance, amount,
                      prevbal, i),
                new_last_balance(balance, prevbal, s))

\* parse_punjab_national_bank_v1.process_block
pnb1_process_block(b, prevbal, i) ==
  IF ~b.ok THEN Rejected(prevbal)
  ELSE
    LET balance == Float(b.bal)
        amount == Float(b.amt)
    IN IF ~balance.ok \/ ~amount.ok
         THEN Rejected(prevbal)              \* except Exception: return None, prev_balance
         ELSE
           LET s == IF prevbal # NoBalance
                      THEN InferThreeWay(amount.v, balance.v, prevbal[1])
                      ELSE IF \/ Contains(b.narr, Kw.KW_UPI_DR)
                              \/ Contains(Upper(b.narr), Kw.KW_WITHDRAWAL)
                             THEN Split(amount.v, 0)
                             ELSE Split(0, amount.v)
           IN Produced(MkRow(ToDatetimeCoerce(b.date), b.narr, s.w, s.d, balance.v,
                             amount.v, prevbal, i),
                       new_last_balance(balance.v, prevbal, s))

\* parse_idbi_bank_format3.process_block
idbi3_process_block(b, prevbal, i) ==
  IF ~b.ok THEN Rejected(prevbal)
  ELSE
    LET amount == Float(b.amt)
        balance == Float(b.bal)
    IN IF ~amount.ok \/ ~balance.ok
         THEN Rejected(prevbal)              \* except Exception: return None, prev_balance
         ELSE
           LET s == IF prevbal # NoBalance
                      THEN InferThreeWay(amount.v, balance.v, prevbal[1])
                      ELSE IF \/ Contains(b.narr, Kw.KW_NEFT_DASH)
                              \/ Contains(b.narr, Kw.KW_DEPOSIT)
                             THEN Split(0, amount.v)
                             ELSE Split(amount.v, 0)
           IN Produced(MkRow(ToDatetimeCoerce(b.date), b.narr, s.w, s.d, balance.v,
                             amount.v, prevbal, i),
                       new_last_balance(balance.v, prevbal, s))

process_block(p, b, prevbal, i) ==
  CASE p = "parse_hdfc_bank" -> hdfc_single_transaction(b, prevbal, i)
    [] p = "parse_kotak_bank" -> kotak_block(b, prevbal, i)
    [] p = "parse_bank_of_baroda_format2" -> baroda2_line(b, prevbal, i)
    [] p = "parse_axis_bank_format2" -> axis2_line(b, prevbal, i)
    [] p = "parse_yes_bank" -> yes_process_block(b, prevbal, i)
    [] p = "parse_indian_bank_v6" -> indian6_process_block(b, prevbal, i)
    [] p = "parse_sbi_bank" -> sbi_block(b, prevbal, i)
    [] p = "parse_sbi_bank_v2" -> sbi2_process_block(b, prevbal, i)
    [] p = "parse_au_bank_format4" -> au4_transaction(b, prevbal, i)
    [] p = "parse_punjab_national_bank_v1" -> pnb1_process_block(b, prevbal, i)
    [] p = "parse_idbi_bank_format3" -> idbi3_process_block(b, prevbal, i)

\* the parsers whose last block is handled after the loop, where the returned
\* balance is not stored in last_balance any more
LastBlockAfterLoop ==
  {"parse_yes_bank", "parse_indian_bank_v6", "parse_sbi_bank_v2", "parse_au_bank_format4",
   "parse_punjab_national_bank_v1", "parse_idbi_bank_format3"}

\* the parsers that end with df.dropna(subset=['Date'])
DropsNullDates ==
  {"parse_indian_bank_v6", "parse_sbi_bank", "parse_sbi_bank_v2", "parse_au_bank_format4",
   "parse_punjab_national_bank_v1", "parse_idbi_bank_format3"}

\* the column cleaning at the end of a parser: pd.to_numeric(..., errors='coerce').fillna(0)
clean_money_cols(p, row) ==
  CASE p = "parse_kotak_bank" ->
         [row EXCEPT !.Closing = ToNumericOrZero(row.Closing)]
    [] p = "parse_bank_of_baroda_format2" ->
         [row EXCEPT !.Withdrawal = ToNumericOrZero(row.Withdrawal),
                     !.Deposit = ToNumericOrZero(row.Deposit),
                     !.Closing = ToNumericOrZero(row.Closing)]
    [] OTHER -> row

dropna_Date(rows) == SelectSeq(rows, LAMBDA r : r.Date # "NaT")

\* df.iloc[::-1].reset_index(drop=True)
reverse_rows(rows) == [k \in 1..Len(rows) |-> rows[Len(rows) + 1 - k]]

\* pd.DataFrame(transactions), the column cleaning, the dropna and the
\* reversal of parser p
build_frame(p, rows) ==
  LET cleaned == [k \in 1..Len(rows) |-> clean_money_cols(p, rows[k])]
      dated == IF p \in DropsNullDates THEN dropna_Date(cleaned) ELSE cleaned
  IN IF p \in ReverseOrderParsers THEN reverse_rows(dated) ELSE dated

\* variant: the second parser tried whatever the first one returned
NeedsFallbackAlways(plan, doc) == plan.secondary # NoParser

\* variant: the fallback is taken only by the first call for a file
NeedsFallbackFirstCallOnly(plan, doc) ==
  plan.secondary # NoParser /\ ReturnsEmpty(plan.primary, doc) /\ prev = NoPrev

\* the fallback test of the Axis, Baroda and AU branches: `if not df.empty: return df`
NeedsFallback(plan, doc) ==
  plan.secondary # NoParser /\ ReturnsEmpty(plan.primary, doc)

(***************************************************************************)
(* Router machine: one call of parse_bank_statement per uploaded file.     *)
(***************************************************************************)
InitRouter ==
  /\ filename = <<>>
  /\ pdf = [encrypted |-> FALSE, broken |-> FALSE, pages |-> <<>>, yields |-> {}]
  /\ text = NoText
  /\ pc = "idle"
  /\ invoked = <<>>
  /\ result_from = {}
  /\ result_columns = NoResult
  /\ prev = NoPrev

InitParser ==
  /\ parser = NoParser
  /\ ppc = "idle"
  /\ last_balance = NoBalance
  /\ transactions = <<>>
  /\ nblocks = 0
  /\ handled = NoBlock
  /\ df = <<>>

InitBatch ==
  /\ uploaded_bank_statements = <<>>
  /\ file_index = 0
  /\ all_tx_dfs = <<>>
  /\ master_transactions_df = <<>>
  /\ bpc = "idle"

InitLines ==
  /\ lparser = NoParser
  /\ text_lines = <<>>
  /\ line_index = 0
  /\ cleaned_lines = <<>>
  /\ current_block_lines = <<>>
  /\ handed_blocks = <<>>
  /\ records = <<>>
  /\ lpc = "idle"

\* a new browser session: st.session_state is empty and no run has happened
InitSession ==
  /\ session_state = <<>>
  /\ rendered = "nothing"
  /\ last_click = <<>>
  /\ last_login = "-"

Init == InitRouter /\ InitParser /\ InitBatch /\ InitLines /\ InitSession

\* the dashboard calls parse_bank_statement(file.name, file.getvalue())
Call ==
  /\ pc = "idle"
  /\ \E fn \in Filenames, p \in Pdfs : filename' = fn /\ pdf' = p
  /\ text' = NoText
  /\ pc' = "extract"
  /\ invoked' = <<>>
  /\ result_from' = {}
  /\ result_columns' = NoResult
  /\ prev' = NoPrev
  /\ UNCHANGED <<pvars, bvars, lvars, svars>>

\* a further call whose file has the same name and the same first PrefixLen
\* characters of text as the call that just returned (the same bytes among
\* them); the outcome of that call and whether the bytes are the same are
\* remembered in prev
CallSamePrefix ==
  /\ pc = "done"
  /\ text # NoText
  /\ prev = NoPrev
  /\ \E p \in Pdfs :
       /\ ~p.encrypted /\ ~p.broken
       /\ p.pages # <<>> /\ pdf.pages # <<>> /\ Head(p.pages) = Head(pdf.pages)
       /\ Take(extract_text_from_pdf(p), PrefixLen) = Take(text, PrefixLen)
       \* the parsers are functions of the text: the same text gives the same rows
       /\ p.pages = pdf.pages => p.yields = pdf.yields
       /\ pdf' = p
       /\ prev' = [invoked |-> invoked, result_from |-> result_from,
                   same_bytes |-> (p = pdf)]
  /\ text' = NoText
  /\ pc' = "extract"
  /\ invoked' = <<>>
  /\ result_from' = {}
  /\ result_columns' = NoResult
  /\ UNCHANGED filename
  /\ UNCHANGED <<pvars, bvars, lvars, svars>>

\* text = extract_text_from_pdf(...); if not text: return pd.DataFrame()
ExtractText ==
  /\ pc = "extract"
  /\ text' = extract_text_from_pdf(pdf)
  /\ pc' = IF text' = NoText \/ text' = <<>> THEN "done" ELSE "route"
  \* if not text: return pd.DataFrame()
  /\ result_columns' = IF text' = NoText \/ text' = <<>> THEN NoColumns ELSE result_columns
  /\ UNCHANGED <<filename, pdf, invoked, result_from, prev>>
  /\ UNCHANGED <<pvars, bvars, lvars, svars>>

\* the if/elif chain up to the return of the first parser called
RoutePrimary ==
  /\ pc = "route"
  /\ LET plan == RouterPlan(filename, text)
     IN IF plan.primary = NoParser
          THEN /\ invoked' = invoked
               /\ result_from' = {}
               /\ result_columns' = NoColumns      \* else: return pd.DataFrame()
               /\ pc' = "done"
          ELSE /\ invoked' = Append(invoked, plan.primary)
               /\ IF NeedsFallback(plan, pdf)
                    THEN /\ pc' = "fallback"
                         /\ result_from' = result_from
                         /\ result_columns' = result_columns
                    ELSE /\ pc' = "done"
                         /\ result_from' = result_from \cup {plan.primary}
                         /\ \E c \in ParserResultColumns(plan.primary, pdf) :
                              result_columns' = c
  /\ UNCHANGED <<filename, pdf, text, prev>>
  /\ UNCHANGED <<pvars, bvars, lvars, svars>>

\* the second parser of a fallback branch, whose result is returned as it is
RunSecondary ==
  /\ pc = "fallback"
  /\ LET plan == RouterPlan(filename, text)
     IN /\ invoked' = Append(invoked, plan.secondary)
        /\ result_from' = result_from \cup {plan.secondary}
        /\ \E c \in ParserResultColumns(plan.secondary, pdf) : result_columns' = c
  /\ pc' = "done"
  /\ UNCHANGED <<filename, pdf, text, prev>>
  /\ UNCHANGED <<pvars, bvars, lvars, svars>>

\* the DataFrame is handed to the caller; nothing of the call is retained
Return ==
  /\ pc = "done"
  /\ filename' = <<>>
  /\ pdf' = [encrypted |-> FALSE, broken |-> FALSE, pages |-> <<>>, yields |-> {}]
  /\ text' = NoText
  /\ pc' = "idle"
  /\ invoked' = <<>>
  /\ result_from' = {}
  /\ result_columns' = NoResult
  /\ prev' = NoPrev
  /\ UNCHANGED <<pvars, bvars, lvars, svars>>

NextRouter ==
  Call \/ CallSamePrefix \/ ExtractText \/ RoutePrimary \/ RunSecondary \/ Return

SpecRouter == Init /\ [][NextRouter]_vars

(***************************************************************************)
(* Parser machine: one run of a parse_* function.                          *)
(***************************************************************************)
StartParser ==
  /\ ppc = "idle"
  /\ \E p \in ModelledParsers :
       /\ parser' = p
       /\ \E ob \in OpeningBalances(p) : last_balance' = ob
  /\ transactions' = <<>>
  /\ nblocks' = 0
  /\ handled' = NoBlock
  /\ df' = <<>>
  /\ ppc' = "loop"
  /\ UNCHANGED <<rvars, bvars, lvars, svars>>

\* a block that is followed by another one
ProcessBlock ==
  /\ ppc = "loop"
  /\ nblocks + 1 < MaxBlocks
  /\ \E b \in StatementBlocks(parser) :
       LET out == process_block(parser, assemble(parser, b), last_balance,
                                Len(transactions) + 1)
       IN /\ transactions' = transactions \o out.row
          /\ last_balance' = out.bal
          /\ handled' = Handled(b, last_balance, out)
  /\ nblocks' = nblocks + 1
  /\ UNCHANGED <<parser, ppc, df>>
  /\ UNCHANGED <<rvars, bvars, lvars, svars>>

\* the last block of the text, and the return of the DataFrame
ProcessLastBlock ==
  /\ ppc = "loop"
  /\ nblocks < MaxBlocks
  /\ \E b \in StatementBlocks(parser) :
       LET out == process_block(parser, assemble(parser, b), last_balance,
                                Len(transactions) + 1)
       IN /\ transactions' = transactions \o out.row
          /\ handled' = Handled(b, last_balance, out)
          /\ last_balance' = IF parser \in LastBlockAfterLoop THEN last_balance ELSE out.bal
          /\ df' = build_frame(parser, transactions')
  /\ nblocks' = nblocks + 1
  /\ ppc' = "returned"
  /\ UNCHANGED parser
  /\ UNCHANGED <<rvars, bvars, lvars, svars>>

\* a text without any transaction block: return pd.DataFrame()
ReturnNoBlocks ==
  /\ ppc = "loop"
  /\ nblocks = 0
  /\ df' = <<>>
  /\ ppc' = "returned"
  /\ UNCHANGED <<parser, last_balance, transactions, nblocks, handled>>
  /\ UNCHANGED <<rvars, bvars, lvars, svars>>

\* the frame is handed to the router; the parser keeps nothing
ParserDone ==
  /\ ppc = "returned"
  /\ parser' = NoParser
  /\ ppc' = "idle"
  /\ last_balance' = NoBalance
  /\ transactions' = <<>>
  /\ nblocks' = 0
  /\ handled' = NoBlock
  /\ df' = <<>>
  /\ UNCHANGED <<rvars, bvars, lvars, svars>>

NextParser == StartParser \/ ProcessBlock \/ ProcessLastBlock \/ ReturnNoBlocks \/ ParserDone

SpecParser == Init /\ [][NextParser]_vars

(***************************************************************************)
(* Dashboard: the bank statement loop of show_main_dashboard.              *)
(***************************************************************************)
\* number of uploaded bank statements
MaxFiles == 3

\* the calendar days of the rows of the uploaded statements
Days == {1, 2}

\* a row of a frame returned by parse_bank_statement; file is the position of
\* the uploaded file the row comes from (0 until the loop reads the file)
TxRow(date, day) == [Date |-> date, day |-> day, file |-> 0]

\* what parse_bank_statement(file.name, file.getvalue()) does for a file:
\* it raises, or it returns a frame
Raised == [raises |-> TRUE, frame |-> <<>>]
Returned(rows) == [raises |-> FALSE, frame |-> rows]

\* the frames: empty (no text, no parser or no transaction), rows with dates,
\* and rows whose Date is NaT, which parse_hdfc_bank returns
Frames ==
  {<<>>,
   <<TxRow("date", 2)>>,
   <<TxRow("date", 2), TxRow("date", 1)>>,
   <<TxRow("NaT", 0)>>,
   <<TxRow("date", 1), TxRow("NaT", 0)>>}

ParseOutcomes == {Raised} \cup {Returned(f) : f \in Frames}

Uploads == UNION {[1..n -> ParseOutcomes] : n \in 1..MaxFiles}

\* tx_df of the file at position i
tx_df(i) ==
  LET f == uploaded_bank_statements[i].frame
  IN [k \in 1..Len(f) |-> [f[k] EXCEPT !.file = i]]

\* variant of the loop body that forgets the collected frames when a file raises
all_tx_dfs_reset_on_failure(dfs, i) ==
  IF uploaded_bank_statements[i].raises THEN <<>>
  ELSE IF tx_df(i) # <<>> THEN Append(dfs, tx_df(i))
  ELSE dfs

\* one pass of `for file in uploaded_bank_statements`: the try block appends a
\* non-empty tx_df; an empty one and an exception leave all_tx_dfs as it is
all_tx_dfs_after(dfs, i) ==
  IF uploaded_bank_statements[i].raises THEN dfs       \* except Exception: st.warning
  ELSE IF tx_df(i) # <<>> THEN Append(dfs, tx_df(i))   \* if not tx_df.empty
  ELSE dfs                                             \* st.write("No transactions ...")

RECURSIVE concat(_)
\* pd.concat(all_tx_dfs, ignore_index=True)
concat(dfs) == IF dfs = <<>> THEN <<>> ELSE Head(dfs) \o concat(Tail(dfs))

RECURSIVE sort_values_by_Date(_, _)
\* sort_values(by='Date'): the rows of day d, d + 1, ... in this order
sort_values_by_Date(rows, d) ==
  IF \A k \in 1..Len(rows) : rows[k].day < d THEN <<>>
  ELSE SelectSeq(rows, LAMBDA r : r.day = d) \o sort_values_by_Date(rows, d + 1)

\* pd.concat, pd.to_datetime(errors='coerce'), dropna(subset=['Date']) and
\* sort_values(by='Date') of the collected frames
master_of(dfs) ==
  sort_values_by_Date(dropna_Date(concat(dfs)), 1)

\* the button "Process and Analyze Files" with at least one bank statement
StartBatch ==
  /\ bpc = "idle"
  /\ \E u \in Uploads : uploaded_bank_statements' = u
  /\ file_index' = 1
  /\ all_tx_dfs' = <<>>
  /\ master_transactions_df' = <<>>
  /\ bpc' = "loop"
  /\ UNCHANGED <<rvars, pvars, lvars, svars>>

\* one file of the loop
ProcessFile ==
  /\ bpc = "loop"
  /\ file_index <= Len(uploaded_bank_statements)
  /\ all_tx_dfs' = all_tx_dfs_after(all_tx_dfs, file_index)
  /\ file_index' = file_index + 1
  /\ UNCHANGED <<uploaded_bank_statements, master_transactions_df, bpc>>
  /\ UNCHANGED <<rvars, pvars, lvars, svars>>

\* after the loop: the master set is built when a frame was collected
FinishBatch ==
  /\ bpc = "loop"
  /\ file_index > Len(uploaded_bank_statements)
  /\ master_transactions_df' = IF all_tx_dfs # <<>> THEN master_of(all_tx_dfs) ELSE <<>>
  /\ bpc' = "done"
  /\ UNCHANGED <<uploaded_bank_statements, file_index, all_tx_dfs>>
  /\ UNCHANGED <<rvars, pvars, lvars, svars>>

\* the script is run again
Rerun ==
  /\ bpc = "done"
  /\ uploaded_bank_statements' = <<>>
  /\ file_index' = 0
  /\ all_tx_dfs' = <<>>
  /\ master_transactions_df' = <<>>
  /\ bpc' = "idle"
  /\ UNCHANGED <<rvars, pvars, lvars, svars>>

NextBatch == StartBatch \/ ProcessFile \/ FinishBatch \/ Rerun

SpecBatch == Init /\ [][NextBatch]_vars

(***************************************************************************)
(* Line machine: the loops over text.split('\n') of parse_bandhan_bank and *)
(* parse_canara_bank_format2.                                              *)
(*                                                                         *)
(* A line is its stripped text together with what the regular expressions  *)
(* of the parser say about it: start (the start pattern matches at the      *)
(* beginning), ends (end_pattern.match: the line is the money line),        *)
(* money (the money pattern matches at the end of the line) and fields      *)
(* (the line splits into the fields of a transaction).                      *)
(***************************************************************************)
\* number of lines of a statement text
MaxLines == 4

\* the phrases the two loops test with `in`
LnLit ==
  [FP_STATEMENT_SUMMARY |-> <<"S", "t", "a", "t", "e", "m", "e", "n", "t", " ", "S", "u", "m", "m", "a", "r", "y">>,
   FP_DISCLAIMER |-> <<"D", "i", "s", "c", "l", "a", "i", "m", "e", "r", ":">>,
   FP_PAGE_BREAK |-> <<"-", "-", "-", " ", "P", "A", "G", "E", " ", "B", "R", "E", "A", "K", " ", "-", "-", "-">>,
   FP_AMOUNT_DR_CR |-> <<"A", "m", "o", "u", "n", "t", " ", "D", "r", " ", "/", " ", "C", "r">>,
   FP_OPENING_BALANCE |-> <<"O", "p", "e", "n", "i", "n", "g", " ", "B", "a", "l", "a", "n", "c", "e">>,
   FP_TXN_DATE_VALUE_DATE |-> <<"T", "x", "n", " ", "D", "a", "t", "e", " ", "V", "a", "l", "u", "e", " ", "D", "a", "t", "e">>]

Ln ==
  [B_TXN |->
     [text |-> <<"A", "p", "r", "i", "l", "2", ",", " ", "2", "0", "2", "4", " ", "U", "P", "I", " ", "5", ".", "0", "0", " ", "C", "r", " ", "9", ".", "0", "0">>,
      start |-> TRUE, ends |-> FALSE, money |-> FALSE, fields |-> TRUE],
   B_DATED |->
     [text |-> <<"A", "p", "r", "i", "l", "3", ",", " ", "2", "0", "2", "4", " ", "U", "P", "I">>,
      start |-> TRUE, ends |-> FALSE, money |-> FALSE, fields |-> FALSE],
   B_CONT |->
     [text |-> <<"r", "e", "f", " ", "1", "2", " ", "7", ".", "0", "0", " ", "D", "r", " ", "2", ".", "0", "0">>,
      start |-> FALSE, ends |-> FALSE, money |-> FALSE, fields |-> TRUE],
   B_SUMMARY |->
     [text |-> <<"S", "t", "a", "t", "e", "m", "e", "n", "t", " ", "S", "u", "m", "m", "a", "r", "y">>,
      start |-> FALSE, ends |-> FALSE, money |-> FALSE, fields |-> FALSE],
   B_DISCLAIMER |->
     [text |-> <<"D", "i", "s", "c", "l", "a", "i", "m", "e", "r", ":", " ", "n", "o", " ", "s", "i", "g", "n", "a", "t", "u", "r", "e">>,
      start |-> FALSE, ends |-> FALSE, money |-> FALSE, fields |-> FALSE],
   B_DATED_SUMMARY |->
     [text |-> <<"M", "a", "y", "1", ",", " ", "2", "0", "2", "4", " ", "S", "t", "a", "t", "e", "m", "e", "n", "t", " ", "S", "u", "m", "m", "a", "r", "y">>,
      start |-> TRUE, ends |-> FALSE, money |-> FALSE, fields |-> FALSE],
   B_BREAK |->
     [text |-> <<"-", "-", "-", " ", "P", "A", "G", "E", " ", "B", "R", "E", "A", "K", " ", "-", "-", "-">>,
      start |-> FALSE, ends |-> FALSE, money |-> FALSE, fields |-> FALSE],
   B_HEADER |->
     [text |-> <<"D", "a", "t", "e", " ", "A", "m", "o", "u", "n", "t", " ", "D", "r", " ", "/", " ", "C", "r", " ", "B", "a", "l", "a", "n", "c", "e">>,
      start |-> FALSE, ends |-> FALSE, money |-> FALSE, fields |-> FALSE],
   C_START |->
     [text |-> <<"0", "1", "-", "0", "4", "-", "2", "0", "2", "4", " ", "1", "0", ":", "0", "0", ":", "0", "0", " ", "0", "2", " ", "A", "p", "r", " ", "2", "0", "2", "4", " ", "U", "P", "I", "/", "C", "R", "/", "1">>,
      start |-> TRUE, ends |-> FALSE, money |-> FALSE, fields |-> FALSE],
   C_START_FULL |->
     [text |-> <<"0", "2", "-", "0", "4", "-", "2", "0", "2", "4", " ", "1", "1", ":", "0", "0", ":", "0", "0", " ", "0", "2", " ", "A", "p", "r", " ", "2", "0", "2", "4", " ", "A", "T", "M", " ", "3", "3", " ", "5", ".", "0", "0", " ", "9", ".", "0", "0">>,
      start |-> TRUE, ends |-> FALSE, money |-> TRUE, fields |-> FALSE],
   C_CONT |->
     [text |-> <<"R", "E", "F", " ", "1", "2">>,
      start |-> FALSE, ends |-> FALSE, money |-> FALSE, fields |-> FALSE],
   C_CONT_MONEY |->
     [text |-> <<"U", "P", "I", "/", "X", " ", "3", "3", " ", "5", ".", "0", "0", " ", "9", ".", "0", "0">>,
      start |-> FALSE, ends |-> FALSE, money |-> TRUE, fields |-> FALSE],
   C_END |->
     [text |-> <<"3", "3", " ", "5", ".", "0", "0", " ", "9", ".", "0", "0">>,
      start |-> FALSE, ends |-> TRUE, money |-> TRUE, fields |-> FALSE],
   C_BREAK |->
     [text |-> <<"-", "-", "-", " ", "P", "A", "G", "E", " ", "B", "R", "E", "A", "K", " ", "-", "-", "-">>,
      start |-> FALSE, ends |-> FALSE, money |-> FALSE, fields |-> FALSE],
   C_OPENING |->
     [text |-> <<"O", "p", "e", "n", "i", "n", "g", " ", "B", "a", "l", "a", "n", "c", "e", " ", "R", "s", ".", " ", "4", ".", "0", "0">>,
      start |-> FALSE, ends |-> FALSE, money |-> FALSE, fields |-> FALSE]]

BandhanLines == {Ln.B_TXN, Ln.B_DATED, Ln.B_CONT, Ln.B_SUMMARY, Ln.B_DISCLAIMER,
                 Ln.B_DATED_SUMMARY, Ln.B_BREAK, Ln.B_HEADER}
Canara2Lines == {Ln.C_START, Ln.C_START_FULL, Ln.C_CONT, Ln.C_CONT_MONEY, Ln.C_END,
                 Ln.C_BREAK, Ln.C_OPENING}

TextsOf(lineset) == UNION {[1..n -> lineset] : n \in 1..MaxLines}

\* variant: only the summary ends the statement
bandhan_stops_at_summary_only(line) == Contains(line.text, LnLit.FP_STATEMENT_SUMMARY)

\* if "Statement Summary" in line or "Disclaimer:" in line: break
bandhan_stops(line) ==
  \/ Contains(line.text, LnLit.FP_STATEMENT_SUMMARY)
  \/ Contains(line.text, LnLit.FP_DISCLAIMER)

\* the continuation lines that are not appended
bandhan_skips(line) ==
  \/ Contains(line.text, LnLit.FP_PAGE_BREAK)
  \/ Contains(line.text, LnLit.FP_AMOUNT_DR_CR)

\* cleaned_lines after one more line; an element of cleaned_lines is the
\* sequence of the positions of the lines joined into it
bandhan_cleaned(cl, lines, i) ==
  IF ~lines[i].start /\ cl # <<>>
    THEN IF ~bandhan_skips(lines[i])
           THEN [cl EXCEPT ![Len(cl)] = Append(cl[Len(cl)], i)]   \* cleaned_lines[-1] += " " + line
           ELSE cl
    ELSE Append(cl, <<i>>)                                        \* cleaned_lines.append(line)

\* the second loop: the cleaned lines that start with a date and hold the
\* fields of a transaction (amount, Cr or Dr, balance) give a record
bandhan_records(cl, lines) ==
  SelectSeq(cl, LAMBDA e : lines[e[1]].start /\ \E j \in 1..Len(e) : lines[e[j]].fields)

\* the lines that the loop of parse_canara_bank_format2 passes over
canara2_skips(line) ==
  \/ line.text = <<>>
  \/ Contains(line.text, LnLit.FP_PAGE_BREAK)
  \/ Contains(line.text, LnLit.FP_OPENING_BALANCE)
  \/ Contains(line.text, LnLit.FP_TXN_DATE_VALUE_DATE)

\* process_block returns a record: date_start_pattern finds the date at the
\* start of the joined block and end_pattern finds the money at its end
canara2_accepts(block, lines) ==
  block # <<>> /\ lines[block[1]].start /\ lines[block[Len(block)]].money

StartBandhan ==
  /\ lpc = "idle"
  /\ lparser' = "parse_bandhan_bank"
  /\ \E t \in TextsOf(BandhanLines) : text_lines' = t
  /\ line_index' = 1
  /\ cleaned_lines' = <<>>
  /\ current_block_lines' = <<>>
  /\ handed_blocks' = <<>>
  /\ records' = <<>>
  /\ lpc' = "lines"
  /\ UNCHANGED <<rvars, pvars, bvars, svars>>

\* one pass of the first loop of parse_bandhan_bank
BandhanLine ==
  /\ lpc = "lines" /\ lparser = "parse_bandhan_bank"
  /\ line_index <= Len(text_lines)
  /\ IF bandhan_stops(text_lines[line_index])
       THEN /\ lpc' = "records"                     \* break
            /\ UNCHANGED <<cleaned_lines, line_index>>
       ELSE /\ cleaned_lines' = bandhan_cleaned(cleaned_lines, text_lines, line_index)
            /\ line_index' = line_index + 1
            /\ lpc' = IF line_index' > Len(text_lines) THEN "records" ELSE "lines"
  /\ UNCHANGED <<lparser, text_lines, current_block_lines, handed_blocks, records>>
  /\ UNCHANGED <<rvars, pvars, bvars, svars>>

\* the second loop and the return of the frame
BandhanReturn ==
  /\ lpc = "records" /\ lparser = "parse_bandhan_bank"
  /\ records' = bandhan_records(cleaned_lines, text_lines)
  /\ lpc' = "returned"
  /\ UNCHANGED <<lparser, text_lines, line_index, cleaned_lines, current_block_lines,
                 handed_blocks>>
  /\ UNCHANGED <<rvars, pvars, bvars, svars>>

\* parse_canara_bank_format2 after the header line "Debit Credit Balance"
StartCanara2 ==
  /\ lpc = "idle"
  /\ lparser' = "parse_canara_bank_format2"
  /\ \E t \in TextsOf(Canara2Lines) : text_lines' = t
  /\ line_index' = 1
  /\ cleaned_lines' = <<>>
  /\ current_block_lines' = <<>>
  /\ handed_blocks' = <<>>
  /\ records' = <<>>
  /\ lpc' = "lines"
  /\ UNCHANGED <<rvars, pvars, bvars, svars>>

\* one pass of the loop of parse_canara_bank_format2
Canara2Line ==
  /\ lpc = "lines" /\ lparser = "parse_canara_bank_format2"
  /\ line_index <= Len(text_lines)
  /\ LET line == text_lines[line_index]
         grown == Append(current_block_lines, line_index)
     IN IF canara2_skips(line)
          THEN UNCHANGED <<current_block_lines, handed_blocks, records>>      \* continue
          ELSE IF line.start
            THEN /\ current_block_lines' = <<line_index>>                     \* current_block_lines = [line]
                 /\ UNCHANGED <<handed_blocks, records>>
            ELSE IF current_block_lines # <<>>
              THEN IF line.ends
                     THEN /\ handed_blocks' = Append(handed_blocks, grown)    \* process_block(...)
                          /\ records' = IF canara2_accepts(grown, text_lines)
                                          THEN Append(records, grown) ELSE records
                          /\ current_block_lines' = <<>>
                     ELSE /\ current_block_lines' = grown
                          /\ UNCHANGED <<handed_blocks, records>>
              ELSE UNCHANGED <<current_block_lines, handed_blocks, records>>
  /\ line_index' = line_index + 1
  /\ UNCHANGED <<lparser, text_lines, cleaned_lines, lpc>>
  /\ UNCHANGED <<rvars, pvars, bvars, svars>>

\* after the loop: the remaining block is processed and the frame returned
Canara2Return ==
  /\ lpc = "lines" /\ lparser = "parse_canara_bank_format2"
  /\ line_index > Len(text_lines)
  /\ IF current_block_lines # <<>>
       THEN /\ handed_blocks' = Append(handed_blocks, current_block_lines)
            /\ records' = IF canara2_accepts(current_block_lines, text_lines)
                            THEN Append(records, current_block_lines) ELSE records
       ELSE UNCHANGED <<handed_blocks, records>>
  /\ lpc' = "returned"
  /\ UNCHANGED <<lparser, text_lines, line_index, cleaned_lines, current_block_lines>>
  /\ UNCHANGED <<rvars, pvars, bvars, svars>>

\* the frame is handed to the router; the parser keeps nothing
LinesDone ==
  /\ lpc = "returned"
  /\ lparser' = NoParser
  /\ text_lines' = <<>>
  /\ line_index' = 0
  /\ cleaned_lines' = <<>>
  /\ current_block_lines' = <<>>
  /\ handed_blocks' = <<>>
  /\ records' = <<>>
  /\ lpc' = "idle"
  /\ UNCHANGED <<rvars, pvars, bvars, svars>>

NextLines ==
  \/ StartBandhan \/ BandhanLine \/ BandhanReturn
  \/ StartCanara2 \/ Canara2Line \/ Canara2Return
  \/ LinesDone

SpecLines == Init /\ [][NextLines]_vars

(***************************************************************************)
(* Session machine: the script runs of streamlit_app.py in one browser     *)
(* session.  Every interaction runs the script from the top: check_password *)
(* and, when it returns True, show_main_dashboard.                          *)
(***************************************************************************)
Str ==
  [N_RAM_LOWER |-> <<"r", "a", "m", " ", "n", "e", "f", "t">>,
   N_RAMESH |-> <<"R", "A", "M", "E", "S", "H", " ", "U", "P", "I">>,
   N_FEES |-> <<"A", "d", "v", "i", "s", "o", "r", "y", " ", "f", "e", "e", "s">>,
   CL_RAM_KR |-> <<"R", "a", "m", " ", "K", "r">>,
   KEY_ADVISORY |-> <<"A", "D", "V", "I", "S", "O", "R", "Y">>,
   KEY_FEES |-> <<"F", "E", "E", "S">>,
   KEY_WEALTH_MANAGEMENT |-> <<"W", "E", "A", "L", "T", "H", " ", "M", "A", "N", "A", "G", "E", "M", "E", "N", "T">>,
   BR_MESH |-> <<"M", "E", "S", "H">>]

CORRECT_PASSWORD == "SSAudit@21"
Passwords == {CORRECT_PASSWORD, "ssaudit@21", ""}

RED_FLAG_KEYWORDS == {Str.KEY_ADVISORY, Str.KEY_FEES, Str.KEY_WEALTH_MANAGEMENT}

ReportKeys == {"client_tx", "non_client_tx", "flagged_tx", "client_name_options"}

\* rows of the master transaction frame
MaxRows == 2
AnalysisNarrations == {Str.N_RAM_LOWER, Str.N_RAMESH, Str.N_FEES}
AnalysisAmounts == {<<0, 5000>>, <<5001, 0>>}
AnalysisRows ==
  {[Narration |-> n, Withdrawal |-> a[1], Deposit |-> a[2]] :
     n \in AnalysisNarrations, a \in AnalysisAmounts}
MasterFrames == UNION {[1..n -> AnalysisRows] : n \in 0..MaxRows}

\* the 'Client Name' column of master_client_df before it is upper-cased
ClientLists == {<<>>, <<Str.CL_RAM_KR>>}
\* the 'Broker Name' column of the backend broker list
BrokerList == <<Str.BR_MESH>>

\* the class \w of the re module, as far as the inputs use it
IsWordChar(c) ==
  \/ \E i \in 1..26 : LowerCase[i] = c \/ UpperCase[i] = c
  \/ c \in {"0", "1", "2", "3", "4", "5", "6", "7", "8", "9", "_"}

\* str.split(): the maximal runs of non-blank characters
SplitWords(s) ==
  {SubSeq(s, p[1], p[2]) :
     p \in {q \in (1..Len(s)) \X (1..Len(s)) :
              /\ q[1] <= q[2]
              /\ \A k \in q[1]..q[2] : ~IsSpace(s[k])
              /\ (q[1] = 1 \/ IsSpace(s[q[1] - 1]))
              /\ (q[2] = Len(s) \/ IsSpace(s[q[2] + 1]))}}

\* re.search(r"\b" + re.escape(part) + r"\b", narration) for a part that begins
\* and ends with a word character
WordMatch(narration, part) ==
  \E i \in 1..(Len(narration) - Len(part) + 1) :
    LET j == i + Len(part) - 1
    IN /\ SubSeq(narration, i, j) = part
       /\ (i = 1 \/ ~IsWordChar(narration[i - 1]))
       /\ (j = Len(narration) \/ ~IsWordChar(narration[j + 1]))

\* the parts of the upper-cased client names that are longer than two characters
client_name_parts_set(client_df) ==
  UNION {{part \in SplitWords(Upper(client_df[k])) : Len(part) > 2} :
           k \in 1..Len(client_df)}

\* find_all_client_parts: the set of the parts found in the narration
find_all_client_parts(narration, parts) ==
  IF narration = <<>> THEN {} ELSE {part \in parts : WordMatch(narration, part)}

\* find_keyword(narration) is not None
find_keyword(narration, keywords) ==
  narration # <<>> /\ \E k \in keywords : WordMatch(narration, k)

\* find_broker(narration) is not None: the broker names are searched as phrases
find_broker(narration, broker_df) ==
  narration # <<>> /\ \E k \in 1..Len(broker_df) :
                        broker_df[k] # <<>> /\ Contains(narration, Upper(broker_df[k]))

\* transactions_df with the tagging columns; index is the pandas index label
tagged(transactions_df, client_df, keywords, broker_df) ==
  LET parts == client_name_parts_set(client_df)
  IN [k \in 1..Len(transactions_df) |->
        LET row == transactions_df[k]
            Narration_Upper == Upper(row.Narration)
        IN [index |-> k,
            row |-> row,
            Matched_Client_Parts |-> find_all_client_parts(Narration_Upper, parts),
            Flagged |-> find_keyword(Narration_Upper, keywords)
                          \/ find_broker(Narration_Upper, broker_df),
            Is_Over_5k |-> row.Withdrawal > 5000 \/ row.Deposit > 5000]]

\* variant: Report 1 holds every transaction over 5000
non_client_tx_df_every_large(t) == SelectSeq(t, LAMBDA r : r.Is_Over_5k)

\* Report 1: no client part matched and the amount is over 5000
non_client_tx_df(t) ==
  SelectSeq(t, LAMBDA r : r.Matched_Client_Parts = {} /\ r.Is_Over_5k)

\* Report 2: some client part matched
client_tx_df(t) == SelectSeq(t, LAMBDA r : r.Matched_Client_Parts # {})

\* Report 3: a keyword or a broker matched
flagged_tx_df(t) == SelectSeq(t, LAMBDA r : r.Flagged)

run_analysis(transactions_df, client_df, keywords, broker_df) ==
  LET t == tagged(transactions_df, client_df, keywords, broker_df)
      client_tx == client_tx_df(t)
  IN [client_tx |-> client_tx,
      non_client_tx |-> non_client_tx_df(t),
      flagged_tx |-> flagged_tx_df(t),
      client_name_options |->
        UNION {client_tx[k].Matched_Client_Parts : k \in 1..Len(client_tx)}]

\* st.session_state[key] = value
Set(ss, key, value) ==
  [k \in DOMAIN ss \cup {key} |-> IF k = key THEN value ELSE ss[k]]

Authenticated(ss) == "authenticated" \in DOMAIN ss /\ ss["authenticated"]

\* variant: the password is compared without regard to case
password_matches_ignoring_case(password) ==
  password \in {CORRECT_PASSWORD, "ssaudit@21"}

\* password == CORRECT_PASSWORD
password_matches(password) == password = CORRECT_PASSWORD

\* check_password: the session state it leaves, what it returns, and whether
\* it ends the run with st.rerun()
check_password(ss, login_button, password) ==
  LET ss1 == IF "authenticated" \notin DOMAIN ss
               THEN Set(ss, "authenticated", FALSE) ELSE ss
  IN IF ss1["authenticated"]
       THEN [ss |-> ss1, returns |-> TRUE, rerun |-> FALSE]
       ELSE IF login_button /\ password_matches(password)
         THEN [ss |-> Set(ss1, "authenticated", TRUE), returns |-> FALSE, rerun |-> TRUE]
         ELSE [ss |-> ss1, returns |-> FALSE, rerun |-> FALSE]

\* variant: the entries of an earlier click stay
keep_previous_results(ss) == ss

\* the four `del st.session_state[...]` at the start of a click
clear_previous_results(ss) == [k \in DOMAIN ss \ ReportKeys |-> ss[k]]

\* the body of `if st.button("Process and Analyze Files")` for the master
\* frames that the uploads give
process_and_analyze(ss, master_transactions_df_, master_client_df_, master_broker_df_) ==
  LET ss0 == clear_previous_results(ss)
      upper_clients == [k \in 1..Len(master_client_df_) |-> Upper(master_client_df_[k])]
      r == run_analysis(master_transactions_df_, upper_clients, RED_FLAG_KEYWORDS,
                        master_broker_df_)
  IN IF master_transactions_df_ # <<>> /\ master_client_df_ # <<>>
       THEN Set(Set(Set(Set(ss0, "client_tx", r.client_tx),
                        "non_client_tx", r.non_client_tx),
                    "flagged_tx", r.flagged_tx),
                "client_name_options", r.client_name_options)
       ELSE ss0

NoClick == <<>>

\* a script run without a button click: the first run of the session, the run
\* that st.rerun() starts, or a run for another widget
PlainRun ==
  /\ LET cp == check_password(session_state, FALSE, "")
     IN /\ session_state' = cp.ss
        /\ rendered' = IF cp.returns THEN "dashboard" ELSE "login"
  /\ UNCHANGED <<last_click, last_login>>
  /\ UNCHANGED <<rvars, pvars, bvars, lvars>>

\* the run for a click on Login
LoginClick ==
  /\ rendered = "login"
  /\ \E password \in Passwords :
       LET cp == check_password(session_state, TRUE, password)
       IN /\ session_state' = cp.ss
          /\ rendered' = IF cp.rerun THEN "rerun"
                         ELSE IF cp.returns THEN "dashboard" ELSE "login"
          /\ last_login' = password
  /\ UNCHANGED last_click
  /\ UNCHANGED <<rvars, pvars, bvars, lvars>>

\* the run for a click on 'Process and Analyze Files'
ProcessClick ==
  /\ rendered = "dashboard"
  /\ \E tx \in MasterFrames, cl \in ClientLists :
       LET cp == check_password(session_state, FALSE, "")
       IN IF cp.returns
            THEN /\ session_state' = process_and_analyze(cp.ss, tx, cl, BrokerList)
                 /\ rendered' = "dashboard"
                 /\ last_click' = <<[master_transactions_df |-> tx, master_client_df |-> cl,
                                     had_reports |-> ReportKeys \cap DOMAIN session_state # {}]>>
            ELSE /\ session_state' = cp.ss
                 /\ rendered' = "login"
                 /\ UNCHANGED last_click
  /\ UNCHANGED last_login
  /\ UNCHANGED <<rvars, pvars, bvars, lvars>>

NextSession == PlainRun \/ LoginClick \/ ProcessClick

SpecSession == Init /\ [][NextSession]_vars

(***************************************************************************)
(* Properties of the parsers (SpecParser).                                 *)
(***************************************************************************)
Residual(k) ==
  df[k].Closing - df[k - 1].Closing - df[k].Deposit + df[k].Withdrawal

\* C1: the record set a parser returns contains no row whose Date is null; a
\* date string that fails to parse makes its row disappear
C1_NoNullDate ==
  ppc = "returned" => \A k \in 1..Len(df) : df[k].Date # "NaT"

\* C2: every returned row has Withdrawal Amt. >= 0 and Deposit Amt. >= 0, also
\* where the amount string carries a leading '-' or '+'
C2_AmountsNonNegative ==
  ppc = "returned" =>
    \A k \in 1..Len(df) : df[k].Withdrawal >= 0 /\ df[k].Deposit >= 0

\* C3: in every parser that infers debit/credit from the running balance, a
\* block whose balance equals the previous balance within 0.001 gives a row with
\* withdrawal = 0 and deposit = 0, whatever its amount
C3_UnchangedBalanceBothZero ==
  parser \in InferenceParsers =>
    \A k \in 1..Len(transactions) :
      LET r == transactions[k]
      IN (r.prev # NoBalance /\ Abs(r.Closing - r.prev[1]) <= Eps)
           => (r.Withdrawal = 0 /\ r.Deposit = 0)

\* C4: in the parsers with the three-way rule, with a prior balance available,
\* a balance above last_balance + 0.001 gives deposit = amount and withdrawal = 0,
\* a balance below last_balance - 0.001 gives withdrawal = amount and deposit = 0;
\* prior balance 20000.00, amount 5000.00, balance 25000.00 gives deposit
\* 5000.00, withdrawal 0 and closing balance 25000.00
C4_InferenceRule ==
  parser \in InferenceParsers =>
    \A k \in 1..Len(transactions) :
      LET r == transactions[k]
      IN r.prev # NoBalance =>
           /\ r.Closing > r.prev[1] + Eps => (r.Deposit = r.amt /\ r.Withdrawal = 0)
           /\ r.Closing < r.prev[1] - Eps => (r.Withdrawal = r.amt /\ r.Deposit = 0)
           /\ (r.prev = Some(Rupees(20000)) /\ r.amt = Rupees(5000)
                 /\ r.Closing = Rupees(25000))
                => (r.Deposit = Rupees(5000) /\ r.Withdrawal = 0)

\* C4 witness: parse_indian_bank_v6 and parse_sbi_bank have processed the block
\* of Scenario A, and a block whose balance is lower than the prior balance
C4_ScenarioA ==
  /\ parser \in {"parse_indian_bank_v6", "parse_sbi_bank"}
  /\ Len(transactions) = 2
  /\ transactions[1].prev = Some(Rupees(20000))
  /\ transactions[1].amt = Rupees(5000)
  /\ transactions[1].Closing = Rupees(25000)
  /\ transactions[2].Closing = Rupees(15000)

C6_LastBalanceIsClosing ==
  parser \in InferenceParsers =>
    /\ (ppc = "loop" /\ transactions # <<>>)
         => last_balance = Some(transactions[Len(transactions)].Closing)
    /\ \A k \in 2..Len(transactions) :
         transactions[k].prev = Some(transactions[k - 1].Closing)

\* C6 witness: a second record has been inferred after a record whose closing
\* balance is not the balance before it plus the deposit minus the withdrawal
C6_SecondRecordAfterInconsistentFirst ==
  /\ parser \in {"parse_indian_bank_v6", "parse_axis_bank_format2"}
  /\ Len(transactions) = 2
  /\ transactions[1].prev # NoBalance
  /\ transactions[1].Closing #
       transactions[1].prev[1] + transactions[1].Deposit - transactions[1].Withdrawal

(***************************************************************************)
(* Properties of the router (SpecRouter).                                  *)
(***************************************************************************)
Routed == pc = "done" /\ text # NoText /\ text # <<>>

\* C7: the bank is chosen from the filename alone: the branch the router enters
\* is the branch it enters for the same filename whatever the text is
C7_BankFromFilenameAlone ==
  Routed =>
    BankBranch(upper_filename(filename), clean_upper_text(text))
      = BankBranch(upper_filename(filename), <<>>)

\* C8 as stated: for two files with the same filename and the same first 1500
\* characters of text, the parser whose rows are returned is the same
C8_SameReturnedParser ==
  (pc = "done" /\ prev # NoPrev) => result_from = prev.result_from

\* C8 amended: for two such files the parser called first is the same, and the
\* parser whose rows are returned is the same unless one of the calls went on
\* to the second parser of a fallback branch
C8_SameFirstParser ==
  (pc = "done" /\ prev # NoPrev) =>
    /\ Len(invoked) > 0 <=> Len(prev.invoked) > 0
    /\ Len(invoked) > 0 => invoked[1] = prev.invoked[1]
    /\ result_from # prev.result_from => (Len(invoked) = 2 \/ Len(prev.invoked) = 2)

\* C8 witness: the second of two files that agree on the filename and on the
\* first 1500 characters and differ after them has been routed
C8_TwoFilesDifferAfterPrefix ==
  /\ pc = "done" /\ prev # NoPrev
  /\ Len(text) > PrefixLen
  /\ Len(invoked) > 0
  /\ result_from # prev.result_from

C10_Format2FingerprintSelectsFormat2 ==
  (Routed /\ Contains(upper_filename(filename), Lit.KEY_HDFC)
     /\ BankBranch(upper_filename(filename), clean_upper_text(text)) = "HDFC"
     /\ Contains(clean_upper_text(text), Lit.FP_HDFC2))
    => invoked = <<"parse_hdfc_bank_format2">>

\* C11: for a filename routed to the Canara branch, a text prefix that
\* contains the phrase 'Txn Date Value Date' selects parse_canara_bank_format2,
\* and a prefix without it selects parse_canara_bank
C11_CanaraHeaderSelectsFormat2 ==
  (Routed /\ Contains(upper_filename(filename), Lit.KEY_CANARA)
     /\ BankBranch(upper_filename(filename), clean_upper_text(text)) = "CANARA")
    => IF Contains(Take(text, PrefixLen), Lit.FP_CANARA2)
         THEN invoked = <<"parse_canara_bank_format2">>
         ELSE invoked = <<"parse_canara_bank">>

\* C12: a file routed to the HDFC branch whose text prefix has neither the
\* Format 1 markers (VALUE and DT, with CHQ or REF) nor the Format 2 header
\* 'CHQ./REF.NO.VALUEDT' is parsed by parse_hdfc_bank
C12_HdfcDefaultParser ==
  (Routed /\ Contains(upper_filename(filename), Lit.KEY_HDFC)
     /\ BankBranch(upper_filename(filename), clean_upper_text(text)) = "HDFC"
     /\ ~(/\ Contains(upper_text(text), Lit.FP_VALUE) /\ Contains(upper_text(text), Lit.FP_DT)
          /\ (Contains(upper_text(text), Lit.FP_CHQ) \/ Contains(upper_text(text), Lit.FP_REF)))
     /\ ~Contains(clean_upper_text(text), Lit.FP_HDFC2))
    => (invoked = <<"parse_hdfc_bank">> /\ result_from = {"parse_hdfc_bank"})

\* C12 witness: an HDFC file whose text has no header marker at all has been
\* routed
C12_HdfcFileWithoutMarkers ==
  /\ Routed
  /\ BankBranch(upper_filename(filename), clean_upper_text(text)) = "HDFC"
  /\ ~Contains(upper_text(text), Lit.FP_VALUE)
  /\ ~Contains(upper_text(text), Lit.FP_CHQ)
  /\ ~Contains(upper_text(text), Lit.FP_REF)

\* C13: when the filename contains none of the supported bank substrings, no
\* parser runs and the result is empty, whatever the extracted text is
C13_UnknownFilenameRunsNoParser ==
  (Routed /\ BankBranch(upper_filename(filename), <<>>) = "NONE")
    => (invoked = <<>> /\ result_from = {})

\* C14: for an encrypted PDF, or one whose extraction throws,
\* extract_text_from_pdf returns None and parse_bank_statement returns an empty
\* result without invoking a parser
C14_UnreadablePdfGivesEmptyResult ==
  (pdf.encrypted \/ pdf.broken) =>
    /\ pc \in {"extract", "done"}
    /\ pc = "done" => text = NoText
    /\ invoked = <<>>
    /\ result_from = {}

\* C14 witness: the call for an encrypted PDF has returned
C14_EncryptedPdfReturned ==
  pc = "done" /\ pdf.encrypted /\ text = NoText

(***************************************************************************)
(* C15                                                                     *)
(***************************************************************************)
\* the record the block processed last would have given had the page-break
\* line not followed it
RecordWithoutSentinel ==
  LET h == handled[1]
  IN process_block(parser, assemble(parser, NotOnPageEnd(h.block)), h.prev,
                   Len(transactions) + 1 - Len(h.out)).row

\* C15: a transaction block that is immediately followed by the line
\* "--- PAGE BREAK ---" gives exactly the record it gives without that line,
\* in every parser.
C15_SentinelDiscarded ==
  (handled # NoBlock /\ handled[1].block.page_end)
    => handled[1].out = RecordWithoutSentinel

\* C15, for the parsers whose assembler skips the page-break line: the block
\* followed by the line gives the record it gives without it.
C15_SentinelDiscardedWhereSkipped ==
  (handled # NoBlock /\ handled[1].block.page_end /\ parser \notin KeepsSentinel)
    => handled[1].out = RecordWithoutSentinel

\* C15: a block on a page end in a parser that keeps the line gives no record
\* although the same block without the line gives one.
C15_TransactionLostAtPageEnd ==
  /\ handled # NoBlock
  /\ handled[1].block.page_end
  /\ parser \in KeepsSentinel
  /\ handled[1].out = NoRow
  /\ RecordWithoutSentinel # NoRow

(***************************************************************************)
(* C16                                                                     *)
(***************************************************************************)
\* a money string that is no number and no "-" placeholder
ConversionFails(tok) == tok.kind \in {"junk", "word"}

\* the block processed last does not match the field pattern of the parser, or
\* one of its tokens cannot be converted
HandledBlockFails ==
  /\ handled # NoBlock
  /\ LET a == assemble(parser, handled[1].block)
     IN \/ ~a.ok
        \/ a.date # "valid"
        \/ ConversionFails(a.amt) \/ ConversionFails(a.amt2) \/ ConversionFails(a.bal)

\* the rows of the returned frame that come from the block processed last
RowsOfHandledBlock ==
  {k \in 1..Len(df) : handled[1].out # NoRow /\ df[k].idx = handled[1].out[1].idx}

\* C16: a block that fails the field pattern or a token conversion gives no
\* record of the returned frame and leaves the running balance as it was, so
\* that the other blocks give the records they give without it.
C16_FailingBlockLeavesNoTrace ==
  HandledBlockFails =>
    /\ ppc = "returned" => RowsOfHandledBlock = {}
    /\ last_balance = handled[1].prev

\* C16, for the blocks that fail the field pattern: no record, no exception,
\* and the running balance is the one before the block.
C16_PatternMismatchLeavesNoTrace ==
  (handled # NoBlock /\ ~assemble(parser, handled[1].block).ok) =>
    /\ handled[1].out = NoRow
    /\ last_balance = handled[1].prev
    /\ ppc = "returned" => \A k \in 1..Len(df) : df[k].idx < Len(transactions) + 1

\* C16: a block with an unconvertible token has a row in the returned frame
C16_FailingBlockHasRow ==
  HandledBlockFails /\ ppc = "returned" /\ RowsOfHandledBlock # {}

(***************************************************************************)
(* C17                                                                     *)
(***************************************************************************)
\* the rows of the master set
MasterRows == {master_transactions_df[k] : k \in 1..Len(master_transactions_df)}

\* the rows that the file at position i returned
ReturnedRows(i) == {tx_df(i)[k] : k \in 1..Len(tx_df(i))}

\* the files that return a frame
ReturningFiles ==
  {i \in 1..Len(uploaded_bank_statements) : ~uploaded_bank_statements[i].raises}

C19_ResultHasTheFiveColumns ==
  pc = "done" => result_columns = Columns

\* C19, for the results that have rows: a result taken from a consulted parser
\* that extracted a row has exactly the five columns.
C19_NonEmptyResultHasTheFiveColumns ==
  (pc = "done" /\ result_from # {} /\ result_from \subseteq pdf.yields)
    => result_columns = Columns

\* C19: a call returned pd.DataFrame() for a file without a parser
C19_NoParserResultWithoutColumns ==
  pc = "done" /\ text # NoText /\ invoked = <<>> /\ result_columns = NoColumns

(***************************************************************************)
(* C20                                                                     *)
(***************************************************************************)
\* the single-amount parsers that infer the polarity from the running balance
SingleAmountInferenceParsers == InferenceParsers \ {"parse_au_bank_format4"}

\* the parsers among them whose bootstrap branch tests the narration
NarrationBootstrapParsers == {"parse_yes_bank", "parse_sbi_bank", "parse_sbi_bank_v2"}

Polarity(row) ==
  IF row.Deposit > 0 THEN "deposit" ELSE IF row.Withdrawal > 0 THEN "withdrawal" ELSE "none"

OtherNarration(n) == IF n = N_CREDIT THEN N_DEBIT ELSE N_CREDIT

\* the record of block b when no prior balance is available
BootstrapRecord(b) == process_block(parser, assemble(parser, b), NoBalance, 1).row

\* the block processed last was the first of a statement without opening
\* balance and gave a record with a positive amount
HandledAtBootstrap ==
  /\ handled # NoBlock
  /\ handled[1].prev = NoBalance
  /\ handled[1].out # NoRow
  /\ handled[1].out[1].amt > 0

\* the narration decides the polarity of the record of the block processed
\* last: every block with the same narration gets the same polarity, and the
\* same block with the narration of the other kind gets the other polarity
NarrationDecidesPolarity ==
  LET b == handled[1].block
      row == handled[1].out[1]
  IN /\ \A b2 \in BlocksOf(parser) :
          (b2.narr = b.narr /\ BootstrapRecord(b2) # NoRow /\ BootstrapRecord(b2)[1].amt > 0)
            => Polarity(BootstrapRecord(b2)[1]) = Polarity(row)
     /\ Polarity(BootstrapRecord([b EXCEPT !.narr = OtherNarration(b.narr)])[1])
          # Polarity(row)

\* C20: in every single-amount parser a record made without a prior balance
\* has the polarity that the keywords of its narration decide.
C20_BootstrapPolarityFromNarration ==
  (HandledAtBootstrap /\ parser \in SingleAmountInferenceParsers)
    => NarrationDecidesPolarity

\* C20, for parse_yes_bank, parse_sbi_bank and parse_sbi_bank_v2: without a
\* prior balance the narration keywords decide the polarity.
C20_BootstrapPolarityFromNarrationWhereTested ==
  (HandledAtBootstrap /\ parser \in NarrationBootstrapParsers)
    => NarrationDecidesPolarity

\* C20: parse_axis_bank_format2 booked a first amount with a credit narration
\* as a withdrawal
C20_AxisCreditBookedAsWithdrawal ==
  /\ HandledAtBootstrap
  /\ parser = "parse_axis_bank_format2"
  /\ handled[1].block.narr = N_CREDIT
  /\ handled[1].out[1].Withdrawal = handled[1].out[1].amt
  /\ handled[1].out[1].Deposit = 0

(***************************************************************************)
(* C21                                                                     *)
(***************************************************************************)
\* the parsers of the formats with one amount column
SingleAmountParsers == SingleAmountInferenceParsers \cup {"parse_kotak_bank"}

\* C21 as stated: in every row of a single-amount format exactly one of
\* withdrawal and deposit is non-zero.
C21_ExactlyOneNonZero ==
  parser \in SingleAmountParsers =>
    \A k \in 1..Len(transactions) :
      (transactions[k].Withdrawal # 0) # (transactions[k].Deposit # 0)

\* C21: in every row of a single-amount format at most one of withdrawal and
\* deposit is non-zero, and exactly one is when the row was compared with a
\* prior balance that differs from its own and its amount is not zero.
C21_AtMostOneNonZero ==
  parser \in SingleAmountParsers =>
    \A k \in 1..Len(transactions) :
      LET r == transactions[k]
      IN /\ ~(r.Withdrawal # 0 /\ r.Deposit # 0)
         /\ (r.prev # NoBalance /\ Abs(r.Closing - r.prev[1]) > Eps /\ r.amt # 0)
              => (r.Withdrawal # 0) # (r.Deposit # 0)

\* C21: a row of parse_indian_bank_v6 whose balance equals the prior balance
\* has a non-zero amount and both columns zero
C21_UnchangedBalanceRowBothZero ==
  /\ parser = "parse_indian_bank_v6"
  /\ Len(transactions) > 0
  /\ transactions[1].prev = Some(transactions[1].Closing)
  /\ transactions[1].amt > 0
  /\ transactions[1].Withdrawal = 0
  /\ transactions[1].Deposit = 0

(***************************************************************************)
(* C22                                                                     *)
(***************************************************************************)
\* the number of places of s where needle occurs
Occurrences(s, needle) ==
  Cardinality({i \in 1..(Len(s) - Len(needle) + 1) :
                 SubSeq(s, i, i + Len(needle) - 1) = needle})

EndsWith(s, suffix) ==
  Len(s) >= Len(suffix) /\ SubSeq(s, Len(s) - Len(suffix) + 1, Len(s)) = suffix

\* C22: the text extracted from a readable PDF of n >= 1 pages holds exactly
\* n - 1 page-break sentinels and does not end with one.
C22_SentinelsBetweenPagesOnly ==
  (pc \in {"route", "fallback", "done"} /\ text # NoText /\ Len(pdf.pages) >= 1) =>
    /\ Occurrences(text, Lit.PAGE_BREAK) = Len(pdf.pages) - 1
    /\ ~EndsWith(text, Lit.PAGE_BREAK)

\* C22: the text of a one-page PDF is the page text followed by the sentinel
C22_OnePageTextEndsWithSentinel ==
  /\ pc = "done" /\ text # NoText /\ Len(pdf.pages) = 1
  /\ text = pdf.pages[1] \o Lit.PAGE_BREAK

(***************************************************************************)
(* C23                                                                     *)
(***************************************************************************)
\* C23: in the frame returned by a parser that reverses its output, a row whose
\* closing balance is higher than that of the row before it is a deposit of its
\* amount, and one whose closing balance is lower is a withdrawal.
C23_PolarityFollowsChronologicalBalance ==
  (ppc = "returned" /\ parser \in ReverseOrderParsers) =>
    \A k \in 2..Len(df) :
      /\ df[k].Closing > df[k - 1].Closing + Eps
           => (df[k].Deposit = df[k].amt /\ df[k].Withdrawal = 0)
      /\ df[k].Closing < df[k - 1].Closing - Eps
           => (df[k].Withdrawal = df[k].amt /\ df[k].Deposit = 0)

\* C23: in reading order (newest first) each row is booked by comparison with
\* the row read before it, which is the later row of the returned frame.
C23_PolarityFollowsReadingOrder ==
  (ppc = "returned" /\ parser \in ReverseOrderParsers) =>
    \A k \in 1..(Len(df) - 1) :
      df[k].prev = Some(df[k + 1].Closing) =>
        /\ df[k].Closing > df[k + 1].Closing + Eps
             => (df[k].Deposit = df[k].amt /\ df[k].Withdrawal = 0)
        /\ df[k].Closing < df[k + 1].Closing - Eps
             => (df[k].Withdrawal = df[k].amt /\ df[k].Deposit = 0)

\* C23: a returned frame whose earlier row was booked as a withdrawal because
\* the later row has the higher balance
C23_EarlierRowBookedAgainstLaterRow ==
  /\ ppc = "returned" /\ parser = "parse_punjab_national_bank_v1"
  /\ Len(df) = 2
  /\ df[1].Closing < df[2].Closing - Eps
  /\ df[1].Withdrawal = df[1].amt /\ df[1].amt > 0

(***************************************************************************)
(* C24..C25: the line loops                                                *)
(***************************************************************************)
\* the positions of the lines of a statement that end the Bandhan statement
StopLines ==
  {m \in 1..Len(text_lines) :
     \/ Contains(text_lines[m].text, LnLit.FP_STATEMENT_SUMMARY)
     \/ Contains(text_lines[m].text, LnLit.FP_DISCLAIMER)}

\* C24: in parse_bandhan_bank no line at or after the first line that holds
\* "Statement Summary" or "Disclaimer:" starts a cleaned line, is appended to
\* one, or is part of a record.
C24_NothingAfterSummaryOrDisclaimer ==
  lparser = "parse_bandhan_bank" =>
    \A m \in StopLines :
      /\ \A k \in 1..Len(cleaned_lines) :
           \A j \in 1..Len(cleaned_lines[k]) : cleaned_lines[k][j] < m
      /\ \A k \in 1..Len(records) :
           \A j \in 1..Len(records[k]) : records[k][j] < m

\* C24 witness: a Bandhan text with a transaction before a marker line and a
\* dated line after it has been parsed to the end.
C24_DatedLineAfterMarker ==
  /\ lparser = "parse_bandhan_bank" /\ lpc = "returned"
  /\ records # <<>>
  /\ \E m \in StopLines : \E n \in (m + 1)..Len(text_lines) : text_lines[n].start

\* C25 counterexample: in parse_canara_bank_format2 every start line read so
\* far opened a block that is still open or has been handed to process_block.
C25_EveryOpenedBlockProcessed ==
  lparser = "parse_canara_bank_format2" =>
    \A s \in 1..(line_index - 1) :
      (text_lines[s].start /\ ~canara2_skips(text_lines[s])) =>
        \/ current_block_lines # <<>> /\ current_block_lines[1] = s
        \/ \E k \in 1..Len(handed_blocks) : handed_blocks[k][1] = s

(***************************************************************************)
(* C26                                                                     *)
(***************************************************************************)
\* C26: in parse_indian_bank_v6 a block that process_block rejects leaves
\* last_balance as it was: the running balance is still the closing balance of
\* the last accepted record, and every accepted block after the first was
\* compared with the closing balance of the record accepted before it.
C26_RejectionKeepsRunningBalance ==
  parser = "parse_indian_bank_v6" =>
    /\ (handled # NoBlock /\ handled[1].out = NoRow) =>
         /\ last_balance = handled[1].prev
         /\ transactions # <<>> =>
              last_balance = Some(transactions[Len(transactions)].Closing)
    /\ \A k \in 2..Len(transactions) :
         transactions[k].prev = Some(transactions[k - 1].Closing)

\* C26 witness: a block was rejected after a record had been accepted
C26_RejectedAfterAccepted ==
  /\ parser = "parse_indian_bank_v6"
  /\ handled # NoBlock /\ handled[1].out = NoRow
  /\ Len(transactions) = 1
  /\ handled[1].prev = Some(transactions[1].Closing)

(***************************************************************************)
(* C27                                                                     *)
(***************************************************************************)
\* the filename keys of the branches that come after the AU branch
KeysAfterAU ==
  {[key |-> Lit.KEY_ICICI, branch |-> "ICICI"],
   [key |-> Lit.KEY_KOTAK, branch |-> "KOTAK"],
   [key |-> Lit.KEY_UCO, branch |-> "UCO"],
   [key |-> Lit.KEY_CENTRAL_BANK, branch |-> "CENTRAL"],
   [key |-> Lit.KEY_PUNJAB_SIND, branch |-> "PUNJAB_SIND"],
   [key |-> Lit.KEY_CANARA, branch |-> "CANARA"],
   [key |-> Lit.KEY_EQUITAS, branch |-> "EQUITAS"],
   [key |-> Lit.KEY_FEDERAL_BANK, branch |-> "FEDERAL"],
   [key |-> Lit.KEY_BANDHAN, branch |-> "BANDHAN"],
   [key |-> Lit.KEY_BARODA, branch |-> "BARODA"],
   [key |-> Lit.KEY_BANK_OF_INDIA, branch |-> "BOI"]}

\* C27 counterexample: a filename that holds the key of a bank tested after the
\* AU branch is routed to the parser of that bank's branch, whatever else the
\* filename holds.
C27_KeyAfterAUSelectsItsBank ==
  Routed =>
    \A kb \in KeysAfterAU :
      Contains(upper_filename(filename), kb.key) =>
        /\ invoked # <<>>
        /\ invoked[1] = FormatPlan(kb.branch, upper_text(text), clean_upper_text(text)).primary

(***************************************************************************)
(* C28..C30: the dashboard session                                         *)
(***************************************************************************)
\* the report entries that are set
ReportsPresent == ReportKeys \cap DOMAIN session_state

\* C28: the four report entries are all absent, or all present and equal to
\* what run_analysis gives for the master frames of the last click; they are
\* present only if that click had transactions and client names.
C28_ReportsAllAbsentOrFromLastClick ==
  \/ ReportsPresent = {}
  \/ /\ ReportsPresent = ReportKeys
     /\ last_click # NoClick
     /\ last_click[1].master_transactions_df # <<>>
     /\ last_click[1].master_client_df # <<>>
     /\ LET c == last_click[1]
            r == run_analysis(c.master_transactions_df,
                              [k \in 1..Len(c.master_client_df) |-> Upper(c.master_client_df[k])],
                              RED_FLAG_KEYWORDS, BrokerList)
        IN \A key \in ReportKeys : session_state[key] = r[key]

\* C28 witness: a click whose analysis did not run came after a click that had
\* stored reports, and no report entry is left.
C28_EarlierReportsCleared ==
  /\ last_click # NoClick
  /\ last_click[1].had_reports
  /\ ReportsPresent = {}

\* C29: the dashboard is rendered only when session_state['authenticated'] is
\* True; the flag turns True only in the run of a Login click with the correct
\* password; once True it stays True.
C29_DashboardOnlyWhenAuthenticated ==
  /\ [](rendered = "dashboard" => Authenticated(session_state))
  /\ [][(~Authenticated(session_state) /\ Authenticated(session_state'))
          => (rendered = "login" /\ last_login' = CORRECT_PASSWORD)]_vars
  /\ [][Authenticated(session_state) => Authenticated(session_state')]_vars

\* C29 witness: the dashboard is rendered after a Login click
C29_DashboardRenderedAfterLogin ==
  /\ rendered = "dashboard"
  /\ Authenticated(session_state)
  /\ last_login = CORRECT_PASSWORD

\* the pandas index labels of the rows of a report
IndexLabels(report) == {report[k].index : k \in 1..Len(report)}

\* the rows of the last click's transactions with an amount above 5000
LargeRows ==
  {k \in 1..Len(last_click[1].master_transactions_df) :
     \/ last_click[1].master_transactions_df[k].Withdrawal > 5000
     \/ last_click[1].master_transactions_df[k].Deposit > 5000}

\* C30: Report 1 and Report 2 have no transaction in common, and every
\* transaction with a withdrawal or a deposit above 5000 is in one of them.
C30_ReportsOneAndTwoDisjoint ==
  ReportsPresent = ReportKeys =>
    /\ IndexLabels(session_state["non_client_tx"])
         \cap IndexLabels(session_state["client_tx"]) = {}
    /\ LargeRows \subseteq IndexLabels(session_state["non_client_tx"])
                             \cup IndexLabels(session_state["client_tx"])

\* C30 witness: the reports of a click hold a large client transaction and a
\* large transaction of nobody on the client list.
C30_LargeRowsInBothReports ==
  /\ ReportsPresent = ReportKeys
  /\ LargeRows \cap IndexLabels(session_state["client_tx"]) # {}
  /\ LargeRows \cap IndexLabels(session_state["non_client_tx"]) # {}
====
